---- MODULE Spec2Model ----
(***************************************************************************)
(* Model of the Discord rich-presence session of the VLC plugin:           *)
(* discord.c (worker loop Discord_Callbacks and the public operations      *)
(* Impl_InitializePresence, Impl_Update, Impl_Close, Impl_SetEnabled) and  *)
(* discordipc.c (Impl_Connect, Impl_SetPresence, Impl_Close,               *)
(* SendDiscordMessageSync), both held in src/src/metadata.c.               *)
(*                                                                         *)
(* The caller thread and the worker thread(s) interleave at the grain of   *)
(* one shared-memory access or one blocking call per step.  The peer and   *)
(* the operating system are the environment: every blocking call picks its *)
(* outcome nondeterministically.                                           *)
(***************************************************************************)
EXTENDS Integers, FiniteSets, Sequences, TLC

\* ------------------------------------------------------------ bounds ----
\* Worker thread slots: vlc_clone is modelled for at most this many live threads.
MaxThreads == 2
\* Descriptor/handle values the operating system hands out.
MaxHandles == 2
\* Failed connect attempts counted exactly; more are counted as "more".
MaxFails == 2
\* Steps followed once two worker threads have been alive at once.
MaxRaceSteps == 3
\* longest response body, in pieces
MaxBody == 3
\* longest string, in characters, whose every content is enumerated
MaxStr == 3
\* most bytes one WriteAll or ReadAll is asked to move
MaxXfer == 2
\* most system calls whose outcome is followed in one WriteAll or ReadAll
MaxIoSteps == 2

\* --------------------------------------------------- program constants ----
MAX_PIPE_ATTEMPTS == 10
MAX_MESSAGE_SIZE == 16384
\* char sz_state[128] and the other text fields of discord_presence_t
FIELD_SIZE == 128
\* char s_state[256] and the other escaped copies in Impl_SetPresence
ESCAPED_SIZE == 256
\* settings.c:45: i_len < 17 || i_len > 20
MIN_ID_LEN == 17
MAX_ID_LEN == 20
\* size_t arithmetic wraps around; every size of the program is far below it
SizeModulus == 65536
INVALID_PIPE == -1

Threads == 1..MaxThreads
Handles == 1..MaxHandles
NoIpc == 0

\* Mutex owners and the executors of the program.
Free == <<"free", 0>>
Caller == <<"caller", 0>>
Worker(t) == <<"worker", t>>

\* Abstract clock values: mdate() at line 237 and the metadata's start/end.
TimeNow == "now"
TimeMdStart == "md_start"
TimeMdEnd == "md_end"
TimeUnset == "0"

VARIABLES
    platform,   \* "posix" (socket strategy) or "win" (named-pipe strategy): the build
    xdg,        \* posix: XDG_RUNTIME_DIR is set, so /tmp is a distinct fallback
    cpc,        \* position of the caller thread
    settings,   \* p_sys->settings
    b_run,      \* p_sys->b_run: a plain bool, re-read by the worker after every call
    thread,     \* p_sys->thread: the thread most recently cloned
    lock,       \* owner of p_sys->lock, the Presence Store mutex
    presence,   \* p_sys->presence, the Presence Store
    metadata,   \* p_sys->metadata: what the last Impl_Update fetched
    ipc,        \* p_sys->ipc: function pointers set, and which IPC data p_sys points to
    ipcd,       \* the vlc_discord_ipc_data_t allocations, named by the creating thread
    open,       \* handles currently open in the operating system
    w,          \* per worker thread: position and locals
    crashed,    \* the process died (a call through a NULL function pointer)
    io,         \* the transport operation performed by the last step, if any
    sa,         \* the Presence Store access performed by the last step, if any
    trk,        \* per worker thread: counts of what it has done
    obs,        \* what the caller has asked for
    race,       \* steps taken since two workers have been alive together
    calc        \* a function of the program applied on its own: argument and result

vars == <<platform, xdg, cpc, settings, b_run, thread, lock, presence, metadata,
          ipc, ipcd, open, w, crashed, io, sa, trk, obs, race, calc>>

\* ------------------------------------------------------------ values ----
NoIO == [op |-> "none", h |-> INVALID_PIPE, live |-> TRUE, t |-> 0, msg |-> "none"]
IO(op, h, t, msg) == [op |-> op, h |-> h, live |-> h \in open, t |-> t, msg |-> msg]
NoAcc == [by |-> Free, held |-> TRUE, kind |-> "none"]
Acc(who, kind) == [by |-> who, held |-> lock = who, kind |-> kind]

\* Variant: an exit path that returns without unlocking the IPC mutex.
Released_Kept(d) == d

\* vlc_mutex_unlock(&p_sys->lock) of discordipc.c on the IPC data d, before each
\* return of Impl_Close (lines 854, 880), Impl_SetPresence (911, 927, 1005) and
\* Impl_Connect (1036, 1069, 1082, 1098).
Released(d) == [d EXCEPT !.lock = Free]

\* Variant: a store mutex that stays with its owner.
StoreUnlocked_Kept(owner) == owner

\* vlc_mutex_unlock(&p_sys->lock) of discord.c, lines 243 and 366: the owner of
\* the Presence Store mutex afterwards.
StoreUnlocked(owner) == Free

\* DiscordRPC_CreateIPC: calloc'ed data with handle = INVALID_PIPE.
FreshIpc == [handle |-> INVALID_PIPE, b_connected |-> FALSE, lock |-> Free, alive |-> TRUE]
DeadIpc == [handle |-> INVALID_PIPE, b_connected |-> FALSE, lock |-> Free, alive |-> FALSE]

\* res is how the presence send the worker has just made ended ("none" once
\* the worker has acted on it).  stamp is the i_start_time of the presence the
\* worker passed by value to the pf_set_presence call it is in.
NoWorker == [pc |-> "none", i |-> 0, self |-> NoIpc, ctx |-> "none",
             errpipe |-> FALSE, sockc |-> FALSE, res |-> "none", stamp |-> TimeUnset]
\* hs follows the handle the thread holds: "none" (no open handle), "new"
\* (opened, nothing written), "greeted" (a handshake was the first message
\* written), "misused" (another message was), "ready" (the response to the
\* handshake was taken for a success).
NoTrk == [att |-> 0, pau |-> 0, fail |-> 0, torn |-> FALSE, clears |-> 0, hs |-> "none"]

\* calloc'ed vlc_discord_internal_data_t: the store is all zero.
ZeroPresence == [kind |-> "zero", i_start_time |-> TimeUnset, i_end_time |-> TimeUnset]
NoMetadata == "unfetched"
MetadataValues == {"none", "paused", "playing"}

Alive(t) == w[t].pc \notin {"none", "exited"}
Sat(n, cap) == IF n > cap THEN cap ELSE n

\* The message a SendDiscordMessageSync call carries, by its call site.
MsgOf(ctx) == CASE ctx = "conn1" -> "handshake"
                [] ctx = "conn2" -> "handshake"
                [] ctx = "setp" -> "set_activity"
                [] ctx = "close" -> "clear_activity"
                [] OTHER -> "none"

\* The descriptor a successful socket()/CreateFileA returns: the lowest free one.
NewHandle == CHOOSE h \in Handles \ open : \A g \in Handles \ open : h <= g

\* DiscordRPC_LoadSettings (part_005:30-58): the configured application id and
\* display options; b_enabled as configured.
LoadedSettings(en) ==
    [b_enabled |-> en, i_client_id |-> "configured_id", b_show_album |-> TRUE,
     b_show_artist |-> TRUE]

\* No function is being applied on its own.
NoCalc == [fn |-> "none"]

SessionInit ==
    /\ platform \in {"posix", "win"}
    /\ xdg \in BOOLEAN
    /\ (platform = "win" => xdg = FALSE)
    /\ cpc = "created"
    /\ settings \in {LoadedSettings(en) : en \in BOOLEAN}
    /\ b_run = FALSE
    /\ thread = 0
    /\ lock = Free
    /\ presence = ZeroPresence
    /\ metadata = NoMetadata
    /\ ipc = [fn |-> FALSE, sys |-> NoIpc]
    /\ ipcd = [a \in Threads |-> DeadIpc]
    /\ open = {}
    /\ w = [t \in Threads |-> NoWorker]
    /\ crashed = FALSE
    /\ io = NoIO
    /\ sa = NoAcc
    /\ trk = [t \in Threads |-> NoTrk]
    /\ obs = [stopAt |-> "none", quiet |-> FALSE]
    /\ race = 0

Init == SessionInit /\ calc = NoCalc

\* Once two workers have been alive together the model follows the process
\* for MaxRaceSteps further steps.
Raced ==
    /\ IF race > 0 \/ Cardinality({u \in Threads : Alive(u)}) >= 2
       THEN race < MaxRaceSteps /\ race' = race + 1
       ELSE race' = race
    /\ UNCHANGED calc

\* A worker step that touches neither the transport nor the Presence Store.
Silent == io' = NoIO /\ sa' = NoAcc

\* A caller step: it performs no transport operation and, but for the write of
\* Impl_Update, no store access.  io is cleared when a stop request returns, so that
\* whatever it shows afterwards was done afterwards.
CallerSilent == UNCHANGED <<io, sa>>
CallerReturnsFromStop == io' = NoIO /\ UNCHANGED sa

\* ------------------------------------------------- caller: discord.c ----
\* vlc_clone(&p_sys->thread, Discord_Callbacks, ...) succeeding.
Spawn(t) ==
    /\ thread' = t
    /\ w' = [w EXCEPT ![t] = [NoWorker EXCEPT !.pc = "start"]]
    /\ trk' = [u \in Threads |-> IF u = t \/ ~Alive(u) THEN NoTrk ELSE trk[u]]

FreeSlot(t) == w[t].pc = "none"

\* Variant: an Impl_InitializePresence that ignores the enabled setting.
StartIsNoOp_Never(stgs) == FALSE

\* Impl_InitializePresence, lines 279-284: with presence disabled it returns true
\* before touching b_run.
StartIsNoOp(stgs) == ~stgs.b_enabled

\* Impl_InitializePresence, lines 271-295.  No test of b_run precedes the clone.
Impl_InitializePresence ==
    /\ ~crashed
    /\ CallerSilent
    /\ IF StartIsNoOp(settings)
       THEN /\ cpc' = "idle"
            /\ UNCHANGED <<b_run, thread, w, trk, obs>>
       ELSE /\ \E t \in Threads : FreeSlot(t)
            /\ \E ok \in BOOLEAN :
                 IF ok
                 THEN /\ \E t \in Threads :
                           /\ FreeSlot(t)
                           /\ \A u \in Threads : FreeSlot(u) => t <= u
                           /\ Spawn(t)
                      /\ b_run' = TRUE
                      /\ cpc' = "idle"
                 ELSE /\ b_run' = FALSE
                      /\ cpc' = IF cpc = "created" THEN "failed" ELSE "idle"
                      /\ UNCHANGED <<thread, w, trk>>
            /\ obs' = [obs EXCEPT !.quiet = FALSE]
    /\ Raced
    /\ UNCHANGED <<platform, xdg, settings, lock, presence, metadata, ipc, ipcd,
                   open, crashed>>

\* Open() of the plugin shell (part_003:200-239) calls it once, right after
\* Discord_CreateInstance.
Open_InitializePresence ==
    /\ cpc = "created"
    /\ Impl_InitializePresence

\* The same entry point called again later through pf_initialize_presence.
Again_InitializePresence ==
    /\ cpc = "idle"
    /\ Impl_InitializePresence

\* Variant: an Impl_SetEnabled that resets the other settings.
SetEnabledSettings_Reset(stgs, b_enable) ==
    [b_enabled |-> b_enable, i_client_id |-> "0", b_show_album |-> FALSE,
     b_show_artist |-> FALSE]

\* Line 416: p_sys->settings.b_enabled = b_enable.
SetEnabledSettings(stgs, b_enable) == [stgs EXCEPT !.b_enabled = b_enable]

\* Impl_SetEnabled, lines 410-440, up to the vlc_join.
Impl_SetEnabled(b_enable) ==
    /\ ~crashed
    /\ cpc = "idle"
    /\ UNCHANGED sa
    /\ io' = IF ~b_enable /\ ~b_run THEN NoIO ELSE io
    /\ settings' = SetEnabledSettings(settings, b_enable)
    /\ IF b_enable
       THEN /\ obs' = [obs EXCEPT !.quiet = FALSE]
            /\ IF ~b_run
               THEN /\ \E t \in Threads : FreeSlot(t)
                    /\ \E ok \in BOOLEAN :
                         IF ok
                         THEN /\ \E t \in Threads :
                                   /\ FreeSlot(t)
                                   /\ \A u \in Threads : FreeSlot(u) => t <= u
                                   /\ Spawn(t)
                              /\ b_run' = TRUE
                         ELSE /\ b_run' = FALSE
                              /\ UNCHANGED <<thread, w, trk>>
                    /\ cpc' = "idle"
               ELSE UNCHANGED <<b_run, thread, w, trk, cpc>>
       ELSE /\ IF b_run
               THEN /\ b_run' = FALSE
                    /\ cpc' = "join_dis"
                    /\ UNCHANGED obs
               ELSE /\ cpc' = "idle"
                    /\ obs' = [obs EXCEPT !.quiet = TRUE]
                    /\ UNCHANGED b_run
            /\ UNCHANGED <<thread, w, trk>>
    /\ Raced
    /\ UNCHANGED <<platform, xdg, lock, presence, metadata, ipc, ipcd, open, crashed>>

\* Impl_Close of discord.c, lines 376-391, up to the vlc_join.
Discord_Impl_Close ==
    /\ ~crashed
    /\ cpc = "idle"
    /\ UNCHANGED sa
    /\ io' = IF ~b_run THEN NoIO ELSE io
    /\ IF b_run
       THEN /\ b_run' = FALSE
            /\ cpc' = "join_close"
            /\ obs' = [obs EXCEPT !.stopAt =
                          IF /\ Alive(thread)
                             /\ w[thread].pc \in {"upd_top", "upd_lock", "setp_call",
                                    "setp_lock", "ss_whdr", "ss_wbody", "ss_rhdr",
                                    "ss_rbody", "sp_after", "upd_unlock", "chk245",
                                    "chk247", "sleep2"}
                             /\ ipc.sys # NoIpc
                             /\ ipcd[ipc.sys].b_connected
                             /\ ipcd[ipc.sys].handle \in open
                          THEN "connected" ELSE "other"]
       ELSE /\ cpc' = "closed"
            /\ obs' = [obs EXCEPT !.quiet = TRUE]
            /\ UNCHANGED b_run
    /\ Raced
    /\ UNCHANGED <<platform, xdg, settings, thread, lock, presence, metadata, ipc,
                   ipcd, open, w, crashed, trk>>

\* Variant: a join that returns without waiting for the thread.
JoinDone_NoWait(t) == TRUE

\* vlc_join(p_sys->thread, NULL) returns once that thread has returned.
JoinDone(t) == w[t].pc = "exited"

\* The vlc_join of Impl_SetEnabled (line 435) or Impl_Close (line 385) returning,
\* and the rest of the function (vlc_mutex_destroy for Impl_Close).
Join_Return ==
    /\ ~crashed
    /\ cpc \in {"join_dis", "join_close"}
    /\ JoinDone(thread)
    /\ CallerReturnsFromStop
    /\ w' = [w EXCEPT ![thread] = IF @.pc = "exited" THEN NoWorker ELSE @]
    /\ cpc' = IF cpc = "join_close" THEN "closed" ELSE "idle"
    /\ obs' = [obs EXCEPT !.quiet = TRUE]
    /\ Raced
    /\ UNCHANGED <<platform, xdg, settings, b_run, thread, lock, presence, metadata,
                   ipc, ipcd, open, crashed, trk>>

\* Presence formatting of Impl_Update, lines 315-363 (memset, then the fields).
FormatPresence(md) ==
    CASE md = "playing" -> [kind |-> "playing", i_start_time |-> TimeMdStart,
                            i_end_time |-> TimeMdEnd]
      [] md = "paused" -> [kind |-> "paused", i_start_time |-> TimeUnset,
                           i_end_time |-> TimeUnset]
      [] OTHER -> [kind |-> "idle", i_start_time |-> TimeUnset,
                   i_end_time |-> TimeUnset]

\* Variant: an Impl_Update that ignores the enabled setting.
UpdateSuspended_Never(stgs) == FALSE

\* Impl_Update, lines 306-309: if (!p_sys->settings.b_enabled) return true.
UpdateSuspended(stgs) == ~stgs.b_enabled

\* Impl_Update, lines 297-309: with presence disabled it returns true at once.
Update_Begin ==
    /\ ~crashed
    /\ cpc = "idle"
    /\ CallerSilent
    /\ cpc' = IF UpdateSuspended(settings) THEN "idle" ELSE "upd_lock"
    /\ Raced
    /\ UNCHANGED <<platform, xdg, settings, b_run, thread, lock, presence, metadata,
                   ipc, ipcd, open, w, crashed, trk, obs>>

\* Impl_Update, line 313: vlc_mutex_lock(&p_sys->lock).
Update_Lock ==
    /\ ~crashed
    /\ cpc = "upd_lock"
    /\ lock = Free
    /\ CallerSilent
    /\ lock' = Caller
    /\ cpc' = "upd_write"
    /\ Raced
    /\ UNCHANGED <<platform, xdg, settings, b_run, thread, presence, metadata, ipc,
                   ipcd, open, w, crashed, trk, obs>>

\* Variant: an Impl_Update that sends the presence itself.
UpdateTransport_Sends(cur) == [cur EXCEPT !.op = "write", !.msg = "set_activity"]

\* The transport operation on record after Impl_Update: the pf_set_presence call of
\* line 365 is commented out, so Impl_Update performs none.
UpdateTransport(cur) == cur

\* Impl_Update, lines 311-368: rewrite the store from the metadata, unlock, return.
\* DiscordRPC_GetCurrentMetadata (line 311) runs before the lock is taken; p_sys->metadata
\* is private to the caller, so what it fetched is chosen here, where it is used.
Update_Write ==
    /\ ~crashed
    /\ cpc = "upd_write"
    /\ io' = UpdateTransport(io)
    /\ sa' = Acc(Caller, "write")
    /\ metadata' \in MetadataValues
    /\ presence' = FormatPresence(metadata')
    /\ lock' = StoreUnlocked(lock)
    /\ cpc' = "idle"
    /\ Raced
    /\ UNCHANGED <<platform, xdg, settings, b_run, thread, ipc, ipcd, open, w,
                   crashed, trk, obs>>

\* ------------------------------------- worker: Discord_Callbacks ----
\* What a worker step leaves alone on the caller's side.
CallerSame ==
    /\ UNCHANGED <<platform, xdg, cpc, settings, b_run, thread, metadata, obs>>
    /\ Raced

Goto(t, p) == w' = [w EXCEPT ![t].pc = p]

\* A call through p_sys->ipc.pf_xxx(&p_sys->ipc): NULL function pointers (after the
\* memset of line 261) kill the process; a NULL p_self->p_sys makes the method
\* return false at once; otherwise the method works on the data p_sys points to.
CallWith(t, onNull, onData, stamp) ==
    IF ~ipc.fn
    THEN /\ crashed' = TRUE
         /\ UNCHANGED w
    ELSE /\ crashed' = FALSE
         /\ IF ipc.sys = NoIpc
            THEN Goto(t, onNull)
            ELSE w' = [w EXCEPT ![t].pc = onData, ![t].self = ipc.sys,
                                ![t].stamp = stamp]

Call(t, onNull, onData) == CallWith(t, onNull, onData, w[t].stamp)

\* Variant: a retry loop that a failed attempt ends.
AfterConnect_GiveUp(ok) == IF ok THEN "chk233" ELSE "x_close"

\* Variant: a retry loop that goes straight to the next attempt after a failure.
AfterConnect_NoPause(ok) == IF ok THEN "chk233" ELSE "inner"

\* Lines 228-230: a successful pf_connect breaks out of the retry loop, a failed one
\* is followed by msleep(2 s).
AfterConnect(ok) == IF ok THEN "chk233" ELSE "sleep1"

\* Variant: loops that never look at the run flag.
LoopGoesOn_Always(run) == TRUE

\* while (p_sys->b_run), lines 223, 225 and 239: the loop goes on while the run flag
\* is set.
LoopGoesOn(run) == run

\* Line 218: DiscordRPC_CreateIPC (lines 1112-1138); on failure the thread returns.
W_Start(t) ==
    /\ ~crashed
    /\ w[t].pc = "start"
    /\ Silent
    /\ \E ok \in BOOLEAN :
         IF ok
         THEN /\ ipc' = [fn |-> TRUE, sys |-> t]
              /\ ipcd' = [ipcd EXCEPT ![t] = FreshIpc]
              /\ Goto(t, "outer")
         ELSE /\ w' = [w EXCEPT ![t] = [NoWorker EXCEPT !.pc = "exited"]]
              /\ UNCHANGED <<ipc, ipcd>>
    /\ CallerSame
    /\ UNCHANGED <<lock, presence, open, crashed, trk>>

\* Line 223: while (p_sys->b_run).
W_Outer(t) ==
    /\ ~crashed
    /\ w[t].pc = "outer"
    /\ Silent
    /\ Goto(t, IF LoopGoesOn(b_run) THEN "inner" ELSE "x_close")
    /\ trk' = [trk EXCEPT ![t].att = 0, ![t].pau = 0, ![t].fail = 0]
    /\ CallerSame
    /\ UNCHANGED <<lock, presence, ipc, ipcd, open, crashed>>

\* Line 225: while (p_sys->b_run).
W_Inner(t) ==
    /\ ~crashed
    /\ w[t].pc = "inner"
    /\ Silent
    /\ Goto(t, IF LoopGoesOn(b_run) THEN "conn_call" ELSE "chk233")
    /\ CallerSame
    /\ UNCHANGED <<lock, presence, ipc, ipcd, open, crashed, trk>>

\* Line 228: the call of pf_connect.
W_ConnCall(t) ==
    /\ ~crashed
    /\ w[t].pc = "conn_call"
    /\ Silent
    /\ Call(t, AfterConnect(FALSE), "conn_lock")
    /\ trk' = [trk EXCEPT ![t].att = Sat(@ + 1, MaxFails + 2),
                          ![t].fail = IF ipc.fn /\ ipc.sys = NoIpc
                                      THEN Sat(@ + 1, MaxFails + 1) ELSE @]
    /\ CallerSame
    /\ UNCHANGED <<lock, presence, ipc, ipcd, open>>

\* Line 230: msleep(VLC_TICK_FROM_SEC(2)).
W_Sleep1(t) ==
    /\ ~crashed
    /\ w[t].pc = "sleep1"
    /\ Silent
    /\ Goto(t, "inner")
    /\ trk' = [trk EXCEPT ![t].pau = Sat(@ + 1, MaxFails + 2)]
    /\ CallerSame
    /\ UNCHANGED <<lock, presence, ipc, ipcd, open, crashed>>

\* Lines 233-234: if (!p_sys->b_run) break.
W_Chk233(t) ==
    /\ ~crashed
    /\ w[t].pc = "chk233"
    /\ Silent
    /\ Goto(t, IF ~b_run THEN "x_close" ELSE "set_start")
    /\ CallerSame
    /\ UNCHANGED <<lock, presence, ipc, ipcd, open, crashed, trk>>

\* Line 237: p_sys->presence.i_start_time = SEC_FROM_VLC_TICK(mdate()).
W_SetStart(t) ==
    /\ ~crashed
    /\ w[t].pc = "set_start"
    /\ io' = NoIO
    /\ sa' = Acc(Worker(t), "write")
    /\ presence' = [presence EXCEPT !.i_start_time = TimeNow]
    /\ Goto(t, "upd_top")
    /\ trk' = [trk EXCEPT ![t].att = 0, ![t].pau = 0, ![t].fail = 0]
    /\ CallerSame
    /\ UNCHANGED <<lock, ipc, ipcd, open, crashed>>

\* Line 239: while (p_sys->b_run).
W_UpdTop(t) ==
    /\ ~crashed
    /\ w[t].pc = "upd_top"
    /\ Silent
    /\ Goto(t, IF LoopGoesOn(b_run) THEN "upd_lock" ELSE "chk253")
    /\ CallerSame
    /\ UNCHANGED <<lock, presence, ipc, ipcd, open, crashed, trk>>

\* Line 241: vlc_mutex_lock(&p_sys->lock).
W_UpdLock(t) ==
    /\ ~crashed
    /\ w[t].pc = "upd_lock"
    /\ lock = Free
    /\ Silent
    /\ lock' = Worker(t)
    /\ Goto(t, "setp_call")
    /\ CallerSame
    /\ UNCHANGED <<presence, ipc, ipcd, open, crashed, trk>>

\* Line 242: the call of pf_set_presence; the store is copied into the by-value
\* argument.
W_SetpCall(t) ==
    /\ ~crashed
    /\ w[t].pc = "setp_call"
    /\ io' = NoIO
    /\ sa' = Acc(Worker(t), "read")
    /\ CallWith(t, "upd_unlock", "setp_lock", presence.i_start_time)
    /\ CallerSame
    /\ UNCHANGED <<lock, presence, ipc, ipcd, open, trk>>

\* Line 243: vlc_mutex_unlock(&p_sys->lock).
W_UpdUnlock(t) ==
    /\ ~crashed
    /\ w[t].pc = "upd_unlock"
    /\ Silent
    /\ lock' = StoreUnlocked(lock)
    /\ w' = [w EXCEPT ![t].pc = "chk245", ![t].stamp = TimeUnset]
    /\ CallerSame
    /\ UNCHANGED <<presence, ipc, ipcd, open, crashed, trk>>

\* Lines 245-246: if (!p_sys->b_run) break.
W_Chk245(t) ==
    /\ ~crashed
    /\ w[t].pc = "chk245"
    /\ Silent
    /\ w' = [w EXCEPT ![t].pc = IF ~b_run THEN "chk253" ELSE "chk247",
                      ![t].res = IF ~b_run THEN "none" ELSE @]
    /\ CallerSame
    /\ UNCHANGED <<lock, presence, ipc, ipcd, open, crashed, trk>>

\* Impl_IsConnected, lines 1103-1110.
Impl_IsConnected == ipc.sys # NoIpc /\ ipcd[ipc.sys].b_connected

\* Lines 247-250: if (!pf_is_connected(...)) break; else msleep(2 s) follows.
W_Chk247(t) ==
    /\ ~crashed
    /\ w[t].pc = "chk247"
    /\ Silent
    /\ IF ~ipc.fn
       THEN /\ crashed' = TRUE
            /\ UNCHANGED w
       ELSE /\ crashed' = FALSE
            /\ w' = [w EXCEPT ![t].pc = IF Impl_IsConnected THEN "sleep2" ELSE "chk253",
                              ![t].res = "none"]
    /\ CallerSame
    /\ UNCHANGED <<lock, presence, ipc, ipcd, open, trk>>

\* Line 250: msleep(VLC_TICK_FROM_SEC(2)).
W_Sleep2(t) ==
    /\ ~crashed
    /\ w[t].pc = "sleep2"
    /\ Silent
    /\ Goto(t, "upd_top")
    /\ CallerSame
    /\ UNCHANGED <<lock, presence, ipc, ipcd, open, crashed, trk>>

\* Lines 253-254: if (!p_sys->b_run) break; else the outer loop iterates.
W_Chk253(t) ==
    /\ ~crashed
    /\ w[t].pc = "chk253"
    /\ Silent
    /\ Goto(t, IF ~b_run THEN "x_close" ELSE "outer")
    /\ CallerSame
    /\ UNCHANGED <<lock, presence, ipc, ipcd, open, crashed, trk>>

\* Line 258: the call of pf_close.
W_CloseCall(t) ==
    /\ ~crashed
    /\ w[t].pc = "x_close"
    /\ Silent
    /\ Call(t, "x_destroy", "cl_lock")
    /\ CallerSame
    /\ UNCHANGED <<lock, presence, ipc, ipcd, open, trk>>

\* Lines 259-263: pf_destroy (Impl_Destroy, lines 885-897), the memset of the IPC
\* struct, return NULL.
W_Destroy(t) ==
    /\ ~crashed
    /\ w[t].pc = "x_destroy"
    /\ Silent
    /\ IF ~ipc.fn
       THEN /\ crashed' = TRUE
            /\ UNCHANGED <<w, ipc, ipcd>>
       ELSE /\ crashed' = FALSE
            /\ ipcd' = IF ipc.sys = NoIpc THEN ipcd
                       ELSE [ipcd EXCEPT ![ipc.sys].alive = FALSE]
            /\ ipc' = [fn |-> FALSE, sys |-> NoIpc]
            /\ w' = [w EXCEPT ![t] = [NoWorker EXCEPT !.pc = "exited"]]
    /\ CallerSame
    /\ UNCHANGED <<lock, presence, open, trk>>

\* ------------------------------------------------ IPC: discordipc.c ----
\* What an IPC step leaves alone outside the IPC data and the worker's locals.
IpcFrame == /\ CallerSame
            /\ UNCHANGED <<lock, presence, ipc, crashed>>

\* Variant: a candidate loop that gives up after the first failed candidate.
NextCandidate_GiveUp(i) == "c_fail"

\* for (int i = 0; i < MAX_PIPE_ATTEMPTS; i++): where the loop goes after candidate i,
\* lines 1024 and 1053.
NextCandidate(i) ==
    IF i + 1 < MAX_PIPE_ATTEMPTS
    THEN (IF platform = "win" THEN "c_wait" ELSE "c_sock")
    ELSE "c_fail"

\* Line 1074: the /tmp fallback is tried only when XDG_RUNTIME_DIR names another
\* directory.
AfterPrimary == IF xdg THEN "c_fb" ELSE "c_close"

\* Where SendDiscordMessageSync returns to, by call site and result.
SSRet(ctx, ok) ==
    CASE ctx \in {"conn1", "conn2"} /\ ok -> "c_ok"
      [] ctx = "conn1" /\ ~ok -> (IF platform = "win" THEN "c_close" ELSE AfterPrimary)
      [] ctx = "conn2" /\ ~ok -> "c_close"
      [] ctx = "setp" -> "sp_after"
      [] OTHER -> "cl_close"

\* SendDiscordMessageSync, lines 747-752: an invalid handle fails before any I/O.
\* (An outbound body is at most 2048 bytes here, so line 755 never rejects it.)
SSEnter(t, ctx, handle) ==
    IF handle = INVALID_PIPE THEN SSRet(ctx, FALSE) ELSE "ss_whdr"

\* Impl_Connect, lines 1010-1019: vlc_mutex_lock, build the handshake, i = 0.
Connect_Lock(t) ==
    /\ ~crashed
    /\ w[t].pc = "conn_lock"
    /\ ipcd[w[t].self].lock = Free
    /\ Silent
    /\ ipcd' = [ipcd EXCEPT ![w[t].self].lock = Worker(t)]
    /\ w' = [w EXCEPT ![t].pc = IF platform = "win" THEN "c_wait" ELSE "c_sock",
                      ![t].i = 0]
    /\ IpcFrame
    /\ UNCHANGED <<open, trk>>

\* Lines 1055-1057: p_sys->handle = socket(AF_UNIX, SOCK_STREAM, 0).
Connect_Socket(t) ==
    /\ ~crashed
    /\ platform = "posix"
    /\ w[t].pc = "c_sock"
    /\ sa' = NoAcc
    /\ \E ok \in BOOLEAN :
         IF ok /\ Handles \ open # {}
         THEN /\ ipcd' = [ipcd EXCEPT ![w[t].self].handle = NewHandle]
              /\ open' = open \cup {NewHandle}
              /\ io' = [IO("open", NewHandle, t, "none") EXCEPT !.live = TRUE]
              /\ w' = [w EXCEPT ![t].pc = "c_conn1", ![t].sockc = FALSE]
              /\ trk' = [trk EXCEPT ![t].torn = FALSE, ![t].hs = "new"]
         ELSE /\ ipcd' = [ipcd EXCEPT ![w[t].self].handle = INVALID_PIPE]
              /\ io' = NoIO
              /\ w' = [w EXCEPT ![t].pc = NextCandidate(w[t].i), ![t].i = @ + 1]
              /\ UNCHANGED <<open, trk>>
    /\ IpcFrame

\* Lines 1059-1072: connect() to the primary directory's discord-ipc-<i>.
Connect_Primary(t) ==
    /\ ~crashed
    /\ w[t].pc = "c_conn1"
    /\ sa' = NoAcc
    /\ io' = IO("connect", ipcd[w[t].self].handle, t, "none")
    /\ \E ok \in BOOLEAN :
         IF ok
         THEN w' = [w EXCEPT ![t].pc = SSEnter(t, "conn1", ipcd[w[t].self].handle),
                             ![t].ctx = "conn1", ![t].sockc = TRUE]
         ELSE w' = [w EXCEPT ![t].pc = AfterPrimary]
    /\ IpcFrame
    /\ UNCHANGED <<ipcd, open, trk>>

\* Lines 1074-1086: connect() of the same socket to /tmp/discord-ipc-<i>; a socket
\* that is already connected cannot connect again (EISCONN).
Connect_Fallback(t) ==
    /\ ~crashed
    /\ w[t].pc = "c_fb"
    /\ sa' = NoAcc
    /\ io' = IO("connect", ipcd[w[t].self].handle, t, "none")
    /\ \E ok \in (IF w[t].sockc THEN {FALSE} ELSE BOOLEAN) :
         IF ok
         THEN w' = [w EXCEPT ![t].pc = SSEnter(t, "conn2", ipcd[w[t].self].handle),
                             ![t].ctx = "conn2", ![t].sockc = TRUE]
         ELSE w' = [w EXCEPT ![t].pc = "c_close"]
    /\ IpcFrame
    /\ UNCHANGED <<ipcd, open, trk>>

\* Line 1027: WaitNamedPipeA(discord-ipc-<i>, 100).
Connect_WaitPipe(t) ==
    /\ ~crashed
    /\ platform = "win"
    /\ w[t].pc = "c_wait"
    /\ Silent
    /\ \E ok \in BOOLEAN :
         IF ok
         THEN w' = [w EXCEPT ![t].pc = "c_create"]
         ELSE w' = [w EXCEPT ![t].pc = NextCandidate(w[t].i), ![t].i = @ + 1]
    /\ IpcFrame
    /\ UNCHANGED <<ipcd, open, trk>>

\* Lines 1029-1033: p_sys->handle = CreateFileA(...), then the handshake.
Connect_CreateFile(t) ==
    /\ ~crashed
    /\ w[t].pc = "c_create"
    /\ sa' = NoAcc
    /\ \E ok \in BOOLEAN :
         IF ok /\ Handles \ open # {}
         THEN /\ ipcd' = [ipcd EXCEPT ![w[t].self].handle = NewHandle]
              /\ open' = open \cup {NewHandle}
              /\ io' = [IO("open", NewHandle, t, "none") EXCEPT !.live = TRUE]
              /\ w' = [w EXCEPT ![t].pc = SSEnter(t, "conn1", NewHandle),
                                ![t].ctx = "conn1"]
              /\ trk' = [trk EXCEPT ![t].torn = FALSE, ![t].hs = "new"]
         ELSE /\ ipcd' = [ipcd EXCEPT ![w[t].self].handle = INVALID_PIPE]
              /\ io' = NoIO
              /\ w' = [w EXCEPT ![t].pc = NextCandidate(w[t].i), ![t].i = @ + 1]
              /\ UNCHANGED <<open, trk>>
    /\ IpcFrame

\* The stored handle after a failed candidate has been closed: line 1040 resets it
\* on the pipe strategy; line 1088 (socket strategy) closes and leaves the value.
HandleAfterCandidateClose(h) == IF platform = "win" THEN INVALID_PIPE ELSE h

\* Variant: a close that leaves the handle open.
CloseIn_Leak(opn, h) == opn

\* What close()/CloseHandle leaves open.
CloseIn(opn, h) == opn \ {h}

\* Lines 1039-1040 (CloseHandle) and line 1088 (close): give up candidate i.
Connect_CloseCandidate(t) ==
    /\ ~crashed
    /\ w[t].pc = "c_close"
    /\ sa' = NoAcc
    /\ io' = IO("close", ipcd[w[t].self].handle, t, "none")
    /\ open' = CloseIn(open, ipcd[w[t].self].handle)
    /\ ipcd' = [ipcd EXCEPT ![w[t].self].handle = HandleAfterCandidateClose(@)]
    /\ w' = [w EXCEPT ![t].pc = NextCandidate(w[t].i), ![t].i = @ + 1]
    /\ trk' = [trk EXCEPT ![t].hs = "none"]
    /\ IpcFrame

\* Variant: Impl_Connect reporting success although every candidate failed.
ConnectFailResult_True == TRUE

\* What Impl_Connect returns when every candidate failed, lines 1095-1100.
ConnectFailResult == FALSE

\* Lines 1095-1100: report, unlock, return false to line 228.
Connect_Fail(t) ==
    /\ ~crashed
    /\ w[t].pc = "c_fail"
    /\ Silent
    /\ ipcd' = [ipcd EXCEPT ![w[t].self] = Released(@)]
    /\ Goto(t, AfterConnect(ConnectFailResult))
    /\ trk' = [trk EXCEPT ![t].fail = Sat(@ + 1, MaxFails + 1)]
    /\ IpcFrame
    /\ UNCHANGED open

\* Lines 1035-1037, 1068-1070, 1081-1083: b_connected = true, unlock, return true.
Connect_Ok(t) ==
    /\ ~crashed
    /\ w[t].pc = "c_ok"
    /\ Silent
    /\ ipcd' = [ipcd EXCEPT ![w[t].self] = Released([@ EXCEPT !.b_connected = TRUE])]
    /\ Goto(t, AfterConnect(TRUE))
    /\ IpcFrame
    /\ UNCHANGED <<open, trk>>

\* Outcome of one WriteAll or ReadAll: all bytes moved, timeout or other error, or a
\* peer-closed report.
IOOutcomes == {"ok", "timeout", "closed"}

\* Variant: a timeout is reported as a closed peer too.
ErrPipe_OnTimeout(ctx, o, old) ==
    IF o \in {"closed", "timeout"} /\ ctx = "setp" THEN TRUE ELSE old

\* WriteAll/ReadAll set *bp_errpipe only when the caller passed one: Impl_SetPresence
\* does (line 988); Impl_Connect and Impl_Close pass NULL.
ErrPipe(ctx, o, old) == IF o = "closed" /\ ctx = "setp" THEN TRUE ELSE old

\* The handle's history after the first bytes of a message are written on it.
HsAfterWrite(hs, msg) ==
    IF hs = "new" THEN (IF msg = "handshake" THEN "greeted" ELSE "misused") ELSE hs

\* The handle's history after SendDiscordMessageSync has settled its result.
HsAfterResponse(hs, msg, ok) ==
    IF msg = "handshake" /\ ok /\ hs = "greeted" THEN "ready" ELSE hs

\* How a presence send that ends with outcome o of its last step has ended.
SendResult(ctx, o) ==
    IF ctx # "setp" THEN "none"
    ELSE IF o \in {"zero", "success"} THEN "ok"
    ELSE o

\* Lines 762-768: WriteAll of the 8-byte header.
SS_WriteHeader(t) ==
    /\ ~crashed
    /\ w[t].pc = "ss_whdr"
    /\ sa' = NoAcc
    /\ io' = IO("write", ipcd[w[t].self].handle, t, MsgOf(w[t].ctx))
    /\ \E o \in IOOutcomes :
         w' = [w EXCEPT ![t].pc = IF o = "ok" THEN "ss_wbody" ELSE SSRet(w[t].ctx, FALSE),
                        ![t].errpipe = ErrPipe(w[t].ctx, o, @),
                        ![t].res = IF o = "ok" THEN @ ELSE SendResult(w[t].ctx, o)]
    /\ trk' = [trk EXCEPT ![t].hs = HsAfterWrite(@, MsgOf(w[t].ctx))]
    /\ IpcFrame
    /\ UNCHANGED <<ipcd, open>>

\* Lines 770-775: WriteAll of the JSON body.
SS_WriteBody(t) ==
    /\ ~crashed
    /\ w[t].pc = "ss_wbody"
    /\ sa' = NoAcc
    /\ io' = IO("write", ipcd[w[t].self].handle, t, MsgOf(w[t].ctx))
    /\ \E o \in IOOutcomes :
         w' = [w EXCEPT ![t].pc = IF o = "ok" THEN "ss_rhdr" ELSE SSRet(w[t].ctx, FALSE),
                        ![t].errpipe = ErrPipe(w[t].ctx, o, @),
                        ![t].res = IF o = "ok" THEN @ ELSE SendResult(w[t].ctx, o)]
    /\ IpcFrame
    /\ UNCHANGED <<ipcd, open, trk>>

\* Lines 777-798: ReadAll of the response header, the length test, the malloc.
\* "big": i_length > MAX_MESSAGE_SIZE; "zero": i_length = 0, success without a body;
\* "nomem": malloc failed; "body": a body follows.
SS_ReadHeader(t) ==
    /\ ~crashed
    /\ w[t].pc = "ss_rhdr"
    /\ sa' = NoAcc
    /\ io' = IO("read", ipcd[w[t].self].handle, t, MsgOf(w[t].ctx))
    /\ \E o \in {"timeout", "closed", "big", "zero", "nomem", "body"} :
         /\ w' = [w EXCEPT ![t].pc = CASE o = "body" -> "ss_rbody"
                                       [] o = "zero" -> SSRet(w[t].ctx, TRUE)
                                       [] OTHER -> SSRet(w[t].ctx, FALSE),
                           ![t].errpipe = ErrPipe(w[t].ctx, o, @),
                           ![t].res = IF o = "body" THEN @ ELSE SendResult(w[t].ctx, o)]
         /\ trk' = [trk EXCEPT ![t].hs = HsAfterResponse(@, MsgOf(w[t].ctx), o = "zero")]
    /\ IpcFrame
    /\ UNCHANGED <<ipcd, open>>

\* Lines 800-838: ReadAll of the body and the classification of the response.
SS_ReadBody(t) ==
    /\ ~crashed
    /\ w[t].pc = "ss_rbody"
    /\ sa' = NoAcc
    /\ io' = IO("read", ipcd[w[t].self].handle, t, MsgOf(w[t].ctx))
    /\ \E o \in {"timeout", "closed", "success", "failure"} :
         /\ w' = [w EXCEPT ![t].pc = SSRet(w[t].ctx, o = "success"),
                           ![t].errpipe = ErrPipe(w[t].ctx, o, @),
                           ![t].res = SendResult(w[t].ctx, o)]
         /\ trk' = [trk EXCEPT ![t].hs = HsAfterResponse(@, MsgOf(w[t].ctx), o = "success")]
    /\ IpcFrame
    /\ UNCHANGED <<ipcd, open>>

\* Impl_SetPresence, lines 905-913: with an invalid handle, unlock and return false.
SetPresenceRefuses(handle) == handle = INVALID_PIPE

\* Impl_SetPresence, lines 905-988: lock, the handle test, build the JSON (malloc may
\* fail: unlock, return false), enter SendDiscordMessageSync.
SetPresence_Lock(t) ==
    /\ ~crashed
    /\ w[t].pc = "setp_lock"
    /\ ipcd[w[t].self].lock = Free
    /\ Silent
    /\ IF SetPresenceRefuses(ipcd[w[t].self].handle)
       THEN /\ Goto(t, "upd_unlock")
            /\ ipcd' = [ipcd EXCEPT ![w[t].self] = Released([@ EXCEPT !.lock = Worker(t)])]
       ELSE \E mem \in BOOLEAN :
              IF mem
              THEN /\ ipcd' = [ipcd EXCEPT ![w[t].self].lock = Worker(t)]
                   /\ w' = [w EXCEPT ![t].pc = SSEnter(t, "setp", ipcd[w[t].self].handle),
                                     ![t].ctx = "setp", ![t].errpipe = FALSE]
              ELSE /\ w' = [w EXCEPT ![t].pc = "upd_unlock", ![t].res = "nomem"]
                   /\ ipcd' = [ipcd EXCEPT
                                 ![w[t].self] = Released([@ EXCEPT !.lock = Worker(t)])]
    /\ IpcFrame
    /\ UNCHANGED <<open, trk>>

\* Variant: a teardown that leaves the handle value and the connected flag.
Teardown_Keep(d) == d

\* Lines 999-1000: the IPC data after the peer-closed teardown.
Teardown(d) == [d EXCEPT !.handle = INVALID_PIPE, !.b_connected = FALSE]

\* Lines 990-1007: on b_errpipe close the handle and invalidate it; unlock; return.
SetPresence_After(t) ==
    /\ ~crashed
    /\ w[t].pc = "sp_after"
    /\ sa' = NoAcc
    /\ IF w[t].errpipe
       THEN /\ io' = IO("close", ipcd[w[t].self].handle, t, "none")
            /\ open' = CloseIn(open, ipcd[w[t].self].handle)
            /\ ipcd' = [ipcd EXCEPT ![w[t].self] = Released(Teardown(@))]
            /\ trk' = [trk EXCEPT ![t].torn = TRUE, ![t].hs = "none"]
       ELSE /\ io' = NoIO
            /\ ipcd' = [ipcd EXCEPT ![w[t].self] = Released(@)]
            /\ UNCHANGED <<open, trk>>
    /\ Goto(t, "upd_unlock")
    /\ IpcFrame

\* Variant: an Impl_Close that takes every handle for invalid.
CloseSendsClear_Never(handle) == FALSE

\* Impl_Close of discordipc.c, lines 852-856: with an invalid handle it unlocks and
\* returns; otherwise the clear-activity message is sent before the handle is closed.
CloseSendsClear(handle) == handle # INVALID_PIPE

\* Impl_Close of discordipc.c, lines 844-868: lock; an invalid handle returns at
\* once; otherwise build the clear-activity message and enter SendDiscordMessageSync.
IpcClose_Lock(t) ==
    /\ ~crashed
    /\ w[t].pc = "cl_lock"
    /\ ipcd[w[t].self].lock = Free
    /\ Silent
    /\ IF ~CloseSendsClear(ipcd[w[t].self].handle)
       THEN /\ Goto(t, "x_destroy")
            /\ ipcd' = [ipcd EXCEPT ![w[t].self] = Released([@ EXCEPT !.lock = Worker(t)])]
            /\ UNCHANGED trk
       ELSE /\ ipcd' = [ipcd EXCEPT ![w[t].self].lock = Worker(t)]
            /\ w' = [w EXCEPT ![t].pc = SSEnter(t, "close", ipcd[w[t].self].handle),
                              ![t].ctx = "close"]
            /\ trk' = [trk EXCEPT ![t].clears = Sat(@ + 1, 2)]
    /\ IpcFrame
    /\ UNCHANGED open

\* Lines 870-882: close the handle, invalidate it, unlock, return.
IpcClose_Close(t) ==
    /\ ~crashed
    /\ w[t].pc = "cl_close"
    /\ sa' = NoAcc
    /\ io' = IO("close", ipcd[w[t].self].handle, t, "shutdown")
    /\ open' = CloseIn(open, ipcd[w[t].self].handle)
    /\ ipcd' = [ipcd EXCEPT ![w[t].self] = Released(Teardown(@))]
    /\ Goto(t, "x_destroy")
    /\ trk' = [trk EXCEPT ![t].hs = "none"]
    /\ IpcFrame

\* ------------------------------------------------------ specifications ----
WorkerStep(t) ==
    \/ W_Start(t) \/ W_Outer(t) \/ W_Inner(t) \/ W_ConnCall(t) \/ W_Sleep1(t)
    \/ W_Chk233(t) \/ W_SetStart(t) \/ W_UpdTop(t) \/ W_UpdLock(t) \/ W_SetpCall(t)
    \/ W_UpdUnlock(t) \/ W_Chk245(t) \/ W_Chk247(t) \/ W_Sleep2(t) \/ W_Chk253(t)
    \/ W_CloseCall(t) \/ W_Destroy(t)
    \/ Connect_Lock(t) \/ Connect_Socket(t) \/ Connect_Primary(t)
    \/ Connect_Fallback(t) \/ Connect_WaitPipe(t) \/ Connect_CreateFile(t)
    \/ Connect_CloseCandidate(t) \/ Connect_Fail(t) \/ Connect_Ok(t)
    \/ SS_WriteHeader(t) \/ SS_WriteBody(t) \/ SS_ReadHeader(t) \/ SS_ReadBody(t)
    \/ SetPresence_Lock(t) \/ SetPresence_After(t)
    \/ IpcClose_Lock(t) \/ IpcClose_Close(t)

\* pf_set_enabled, pf_close and the joins they wait in.
ControlStep ==
    \/ Impl_SetEnabled(TRUE) \/ Impl_SetEnabled(FALSE)
    \/ Discord_Impl_Close \/ Join_Return

\* pf_update, called by the shell's timer (part_003:182-187).
UpdateStep ==
    \/ Update_Begin \/ Update_Lock \/ Update_Write

\* The plugin as its shell drives it: pf_initialize_presence once, from Open().
Next ==
    \/ Open_InitializePresence
    \/ ControlStep
    \/ UpdateStep
    \/ \E t \in Threads : WorkerStep(t)

Spec == Init /\ [][Next]_vars

\* Any sequence of control calls: pf_initialize_presence may be called again at any
\* time, among pf_set_enabled and pf_close (no pf_update).
NextAnyOrder ==
    \/ Open_InitializePresence
    \/ Again_InitializePresence
    \/ ControlStep
    \/ \E t \in Threads : WorkerStep(t)

SpecAnyOrder == Init /\ [][NextAnyOrder]_vars

\* The shell's calls, and pf_initialize_presence called again while presence
\* reporting is disabled.
NextStartDisabled ==
    \/ Next
    \/ ~settings.b_enabled /\ Again_InitializePresence

SpecStartDisabled == Init /\ [][NextStartDisabled]_vars

\* Starting, stopping and the worker, under fair scheduling: a thread that can
\* take a step eventually takes one.  Every blocking call of the worker (the 2 s
\* pauses, the transfers with their timeouts, WaitNamedPipeA) returns, so each of
\* its steps is one the scheduler owes it, and the caller returns from a join
\* once the thread has ended.  pf_update is left out: it touches the worker only
\* through the store mutex, which it holds for the rewrite of the store alone.
NextFair ==
    \/ Open_InitializePresence
    \/ ControlStep
    \/ \E t \in Threads : WorkerStep(t)

Fairness ==
    /\ \A t \in Threads : WF_vars(WorkerStep(t))
    /\ WF_vars(Join_Return)

SpecFair == Init /\ [][NextFair]_vars /\ Fairness

\* ------------------------------------------- functions on their own ----

\* The functions of discordipc.c that compute a value from their arguments
\* alone are applied here to arguments drawn from bounded sets.  calc holds
\* the function's name, its argument and, once applied, its result.

SVars == <<platform, xdg, cpc, settings, b_run, thread, lock, presence, metadata,
           ipc, ipcd, open, w, crashed, io, sa, trk, obs, race>>

RECURSIVE SeqsUpTo(_, _)
SeqsUpTo(S, n) ==
    IF n = 0 THEN {<<>>}
    ELSE LET shorter == SeqsUpTo(S, n - 1)
         IN  shorter \cup {Append(q, c) : q \in {r \in shorter : Len(r) = n - 1}, c \in S}

Range(q) == {q[i] : i \in 1..Len(q)}

\* ---- the response of the peer (SendDiscordMessageSync, after the header)

\* A response body is a sequence of pieces: the three literals the code
\* searches for, the literal "message":" that opens an error text, a lone
\* double quote, a NUL byte, and any other text.
SuccessMarkers == {"evt_ready", "cmd_set_activity", "code_0"}
BodyPieces == SuccessMarkers \cup {"message", "quote", "nul", "text"}

\* strstr and strchr stop at the first NUL byte of the buffer.
CString(response) ==
    IF \E i \in 1..Len(response) : response[i] = "nul"
    THEN SubSeq(response, 1,
                (CHOOSE i \in 1..Len(response) :
                    /\ response[i] = "nul"
                    /\ \A k \in 1..(i - 1) : response[k] # "nul") - 1)
    ELSE response

\* metadata.c:841: a header announcing no body ends the exchange with true.
EmptyResponseResult == TRUE

\* What is handed to pf_err when the body holds none of the success markers.
ErrorReport(str) ==
    IF \E i \in 1..Len(str) : str[i] = "message"
    THEN LET pos == CHOOSE i \in 1..Len(str) :
                        /\ str[i] = "message"
                        /\ \A k \in 1..(i - 1) : str[k] # "message"
             \* the pieces "quote" and "message" both start with a double quote
             IsQuote(i) == str[i] \in {"quote", "message"}
         IN  IF \E e \in (pos + 1)..Len(str) : IsQuote(e)
             THEN LET end == CHOOSE e \in (pos + 1)..Len(str) :
                                 /\ IsQuote(e)
                                 /\ \A k \in (pos + 1)..(e - 1) : ~IsQuote(k)
                  IN  [kind |-> "message", text |-> SubSeq(str, pos + 1, end - 1)]
             ELSE [kind |-> "unknown_error", text |-> <<>>]
    ELSE [kind |-> "unrecognized", text |-> <<>>]

NoReport == [kind |-> "none", text |-> <<>>]

\* The value SendDiscordMessageSync returns once the response header has
\* been read, and what it reports (the body is read in full).
ResponseResult(i_length, response) ==
    IF i_length > MAX_MESSAGE_SIZE
    THEN [ok |-> FALSE, report |-> [kind |-> "too_large", text |-> <<>>]]
    ELSE IF i_length > 0
    THEN LET str == CString(response)
             b_success == \E i \in 1..Len(str) : str[i] \in SuccessMarkers
         IN  [ok |-> b_success,
              report |-> IF b_success THEN NoReport ELSE ErrorReport(str)]
    ELSE [ok |-> EmptyResponseResult, report |-> NoReport]

ResponseInputs ==
    {[i_length |-> Len(b), response |-> b] : b \in SeqsUpTo(BodyPieces, MaxBody)}
    \cup {[i_length |-> MAX_MESSAGE_SIZE + 1, response |-> <<>>]}

Apply_ResponseResult ==
    /\ calc.fn = "ResponseResult" /\ ~calc.done
    /\ calc' = [calc EXCEPT !.done = TRUE,
                            !.res = ResponseResult(calc.arg.i_length, calc.arg.response)]
    /\ UNCHANGED SVars

\* ---- JsonEscape

\* The characters of a string: the two the code escapes, and any other.
Alphabet == {"quote", "backslash", "a"}

\* Variant: only the double quote is escaped.
NeedsEscape_QuoteOnly(c) == c = "quote"

\* metadata.c:566
NeedsEscape(c) == c = "quote" \/ c = "backslash"

\* The loop of JsonEscape from source index i (1-based here) with dest holding
\* the j = Len(dest) bytes written so far; limit is i_max - 2 as a size_t.
RECURSIVE EscapeLoop(_, _, _, _)
EscapeLoop(psz_src, i, dest, limit) ==
    IF i <= Len(psz_src) /\ Len(dest) < limit
    THEN EscapeLoop(psz_src, i + 1,
                    dest \o (IF NeedsEscape(psz_src[i])
                             THEN <<"backslash", psz_src[i]>>
                             ELSE <<psz_src[i]>>),
                    limit)
    ELSE dest

\* str is what psz_dest holds before its terminator, and term the (0-based)
\* index the terminator is written at: the bytes written are 0..term.
JsonEscape(psz_src, i_max) ==
    LET dest == EscapeLoop(psz_src, 1, <<>>, (i_max - 2) % SizeModulus)
    IN  [str |-> dest, term |-> Len(dest)]

\* Reading an escaped string back, from the left: the backslash of each
\* backslash-pair is dropped and the character after it is kept.  The piece
\* lo..hi of str is read starting in state st ("text", or "pair" after the
\* backslash of a pair); a backslash that ends the string escapes nothing.
RECURSIVE ReadBack(_, _, _, _)
ReadBack(str, lo, hi, st) ==
    IF lo > hi THEN [out |-> <<>>, st |-> st]
    ELSE IF lo = hi
    THEN IF st = "pair" THEN [out |-> <<str[lo]>>, st |-> "text"]
         ELSE IF str[lo] # "backslash" THEN [out |-> <<str[lo]>>, st |-> "text"]
         ELSE IF lo < Len(str) THEN [out |-> <<>>, st |-> "pair"]
         ELSE [out |-> <<str[lo]>>, st |-> "dangling"]
    ELSE LET mid == (lo + hi) \div 2
             left == ReadBack(str, lo, mid, st)
             right == ReadBack(str, mid + 1, hi, left.st)
         IN  [out |-> left.out \o right.out, st |-> right.st]

Unescape(str) == ReadBack(str, 1, Len(str), "text").out

\* The string ends on a backslash that escapes nothing.
Dangling(str) == ReadBack(str, 1, Len(str), "text").st = "dangling"

\* A string of n characters repeating the pattern pat.
Repeated(pat, n) == [k \in 1..n |-> pat[((k - 1) % Len(pat)) + 1]]

ShortStrings == SeqsUpTo(Alphabet, MaxStr)

\* The longest strings a text field of the presence can hold.
FullFields == {Repeated(pat, FIELD_SIZE - 1) : pat \in ShortStrings \ {<<>>}}

EscapeInputs ==
    {[psz_src |-> q, i_max |-> n] : q \in ShortStrings, n \in 0..(2 * MaxStr + 2)}
    \cup {[psz_src |-> q, i_max |-> ESCAPED_SIZE] : q \in ShortStrings \cup FullFields}

Apply_JsonEscape ==
    /\ calc.fn = "JsonEscape" /\ ~calc.done
    /\ calc' = [calc EXCEPT !.done = TRUE,
                            !.res = JsonEscape(calc.arg.psz_src, calc.arg.i_max)]
    /\ UNCHANGED SVars

\* ---- the activity object of Impl_SetPresence

\* Variant: the texts alone open the assets object too.
HasAssets_AnyField(p) ==
    \/ p.sz_large_image # <<>> \/ p.sz_small_image # <<>>
    \/ p.sz_large_text # <<>> \/ p.sz_small_text # <<>>

\* metadata.c:958
HasAssets(p) == p.sz_large_image # <<>> \/ p.sz_small_image # <<>>

\* Variant: any start time other than 0 is sent.
HasTimestamps_NonZero(p) == p.i_start_time # 0

\* metadata.c:949
HasTimestamps(p) == p.i_start_time > 0

Comma(b_need_comma) == IF b_need_comma THEN <<",">> ELSE <<>>

\* What Impl_SetPresence writes between the braces of "activity":{ }, as the
\* sequence of its keys, braces and commas (the values are left out).
ActivityJson(p) ==
    LET s_state == JsonEscape(p.sz_state, ESCAPED_SIZE).str
        s_details == JsonEscape(p.sz_details, ESCAPED_SIZE).str
        s_l_text == JsonEscape(p.sz_large_text, ESCAPED_SIZE).str
        s_s_text == JsonEscape(p.sz_small_text, ESCAPED_SIZE).str
        state == IF Len(s_state) > 0 THEN <<"state">> ELSE <<>>
        comma1 == Len(s_state) > 0
        details == IF Len(s_details) > 0 THEN Comma(comma1) \o <<"details">> ELSE <<>>
        comma2 == comma1 \/ Len(s_details) > 0
        timestamps ==
            IF HasTimestamps(p)
            THEN Comma(comma2) \o <<"timestamps", "{", "start">>
                 \o (IF p.i_end_time > 0 THEN <<",", "end">> ELSE <<>>)
                 \o <<"}">>
            ELSE <<>>
        comma3 == comma2 \/ HasTimestamps(p)
        large_image == IF p.sz_large_image # <<>> THEN <<"large_image">> ELSE <<>>
        hasAsset1 == p.sz_large_image # <<>>
        large_text == IF s_l_text # <<>> THEN Comma(hasAsset1) \o <<"large_text">> ELSE <<>>
        hasAsset2 == hasAsset1 \/ s_l_text # <<>>
        small_image ==
            IF p.sz_small_image # <<>> THEN Comma(hasAsset2) \o <<"small_image">> ELSE <<>>
        hasAsset3 == hasAsset2 \/ p.sz_small_image # <<>>
        small_text == IF s_s_text # <<>> THEN Comma(hasAsset3) \o <<"small_text">> ELSE <<>>
        assets ==
            IF HasAssets(p)
            THEN Comma(comma3) \o <<"assets", "{">>
                 \o large_image \o large_text \o small_image \o small_text \o <<"}">>
            ELSE <<>>
    IN  state \o details \o timestamps \o assets

TextFields ==
    {"sz_state", "sz_details", "sz_large_image", "sz_large_text",
     "sz_small_image", "sz_small_text"}

\* The key Impl_SetPresence writes for a text field.
KeyOf(f) ==
    CASE f = "sz_state" -> "state"
      [] f = "sz_details" -> "details"
      [] f = "sz_large_image" -> "large_image"
      [] f = "sz_large_text" -> "large_text"
      [] f = "sz_small_image" -> "small_image"
      [] f = "sz_small_text" -> "small_text"

\* Presence values: each text field empty or not, each time negative, zero
\* or positive.
PresenceInputs ==
    [sz_state : {<<>>, <<"quote">>}, sz_details : {<<>>, <<"a">>},
     sz_large_image : {<<>>, <<"a">>}, sz_large_text : {<<>>, <<"backslash">>},
     sz_small_image : {<<>>, <<"a">>}, sz_small_text : {<<>>, <<"a">>},
     i_start_time : {-1, 0, 1}, i_end_time : {-1, 0, 1}]

Apply_ActivityJson ==
    /\ calc.fn = "ActivityJson" /\ ~calc.done
    /\ calc' = [calc EXCEPT !.done = TRUE, !.res = ActivityJson(calc.arg)]
    /\ UNCHANGED SVars

\* ---- the length of the set-activity body

\* Variant: a build buffer of half the size.
JSON_SIZE_Half == ESCAPED_SIZE * 4

\* metadata.c:924: char *psz_json = malloc(2048), the size given to every
\* snprintf of the body.
JSON_SIZE == 2048

\* GenerateNonce, lines 548-555: a number from 100000 to 999999 printed with %u.
NonceDigits == 6

\* The number of characters of a printed integer of the given sign (-1, 0, 1)
\* and number of decimal digits.
Printed(sign, digits) == IF sign < 0 THEN digits + 1 ELSE IF sign = 0 THEN 1 ELSE digits

\* Impl_SetPresence, lines 915-985: the length snprintf would need for the body
\* (total, the sum of the snprintf results with the closing piece), whether the
\* body is in the buffer whole (complete: it was never cut at JSON_SIZE - 1
\* characters), and the strlen the body is sent with (json_len).  a.p is the
\* presence, a.start_digits, a.end_digits and a.pid_digits the numbers of
\* digits of the 64-bit times and of the process id.
SetActivityBody(a) ==
    LET p == a.p
        s_state == JsonEscape(p.sz_state, ESCAPED_SIZE).str
        s_details == JsonEscape(p.sz_details, ESCAPED_SIZE).str
        s_l_text == JsonEscape(p.sz_large_text, ESCAPED_SIZE).str
        s_s_text == JsonEscape(p.sz_small_text, ESCAPED_SIZE).str
        c(b) == IF b THEN 1 ELSE 0
        head == Len("{\"cmd\":\"SET_ACTIVITY\",\"args\":{\"pid\":") + a.pid_digits
                + Len(",\"activity\":{")
        state == IF Len(s_state) > 0 THEN Len("\"state\":\"") + Len(s_state) + 1 ELSE 0
        comma1 == Len(s_state) > 0
        details == IF Len(s_details) > 0
                   THEN c(comma1) + Len("\"details\":\"") + Len(s_details) + 1 ELSE 0
        comma2 == comma1 \/ Len(s_details) > 0
        timestamps ==
            IF HasTimestamps(p)
            THEN c(comma2) + Len("\"timestamps\":{\"start\":")
                 + Printed(p.i_start_time, a.start_digits)
                 + (IF p.i_end_time > 0
                    THEN Len(",\"end\":") + Printed(p.i_end_time, a.end_digits) ELSE 0)
                 + 1
            ELSE 0
        comma3 == comma2 \/ HasTimestamps(p)
        hasAsset1 == p.sz_large_image # <<>>
        large_image == IF hasAsset1
                       THEN Len("\"large_image\":\"") + Len(p.sz_large_image) + 1 ELSE 0
        large_text == IF s_l_text # <<>>
                      THEN c(hasAsset1) + Len("\"large_text\":\"") + Len(s_l_text) + 1
                      ELSE 0
        hasAsset2 == hasAsset1 \/ s_l_text # <<>>
        small_image == IF p.sz_small_image # <<>>
                       THEN c(hasAsset2) + Len("\"small_image\":\"")
                            + Len(p.sz_small_image) + 1
                       ELSE 0
        hasAsset3 == hasAsset2 \/ p.sz_small_image # <<>>
        small_text == IF s_s_text # <<>>
                      THEN c(hasAsset3) + Len("\"small_text\":\"") + Len(s_s_text) + 1
                      ELSE 0
        assets == IF HasAssets(p)
                  THEN c(comma3) + Len("\"assets\":{") + large_image + large_text
                       + small_image + small_text + 1
                  ELSE 0
        tail == Len("}},\"nonce\":\"") + NonceDigits + Len("\"}")
        total == head + state + details + timestamps + assets + tail
    IN  [total |-> total,
         complete |-> total <= JSON_SIZE - 1,
         json_len |-> IF total <= JSON_SIZE - 1 THEN total ELSE JSON_SIZE - 1]

\* Text fields that are empty, full of plain characters, or full of characters
\* that need escaping; times that are unset or of 19 digits; a process id of 1
\* or 20 digits.
FieldExtremes == {<<>>} \cup {Repeated(<<ch>>, FIELD_SIZE - 1) : ch \in {"a", "quote"}}
BodyInputs ==
    [p : [sz_state : FieldExtremes, sz_details : FieldExtremes,
          sz_large_image : {<<>>, Repeated(<<"a">>, FIELD_SIZE - 1)},
          sz_large_text : FieldExtremes,
          sz_small_image : {<<>>, Repeated(<<"a">>, FIELD_SIZE - 1)},
          sz_small_text : FieldExtremes,
          i_start_time : {0, 1}, i_end_time : {0, 1}],
     start_digits : {19}, end_digits : {19}, pid_digits : {1, 20}]

Apply_SetActivityBody ==
    /\ calc.fn = "SetActivityBody" /\ ~calc.done
    /\ calc' = [calc EXCEPT !.done = TRUE, !.res = SetActivityBody(calc.arg)]
    /\ UNCHANGED SVars

\* ---- the rewrite of the store by Impl_Update

\* snprintf(buf, size, "%s", str): at most size - 1 characters are kept.
Snprintf(size, str) ==
    IF Len(str) <= size - 1 THEN str ELSE SubSeq(str, 1, size - 1)

\* A string literal of the source, as one piece.
Lit(text) == <<text>>

ZeroStore ==
    [sz_state |-> <<>>, sz_details |-> <<>>, sz_large_image |-> <<>>,
     sz_large_text |-> <<>>, sz_small_image |-> <<>>, sz_small_text |-> <<>>,
     i_start_time |-> 0, i_end_time |-> 0]

\* Variant: the store is not cleared before it is rewritten.
Memset_Keep(old) == old

\* metadata.c:315: memset(&p_sys->presence, 0, sizeof(discord_presence_t)).
Memset(old) == ZeroStore

\* Variant: the artist is shown whatever the setting says.
ShowsArtist_Always(stgs, md) == md.sz_artist # <<>>

\* metadata.c:337, 343
ShowsArtist(stgs, md) == stgs.b_show_artist /\ md.sz_artist # <<>>

\* metadata.c:338, 348
ShowsAlbum(stgs, md) == stgs.b_show_album /\ md.sz_album # <<>>

\* Lines 337-352: the state line; cur is what the field holds before.
StateLine(cur, stgs, md) ==
    IF ShowsArtist(stgs, md) /\ ShowsAlbum(stgs, md)
    THEN Snprintf(FIELD_SIZE, md.sz_artist \o <<" ", "-", " ">> \o md.sz_album)
    ELSE IF ShowsArtist(stgs, md) THEN Snprintf(FIELD_SIZE, md.sz_artist)
    ELSE IF ShowsAlbum(stgs, md) THEN Snprintf(FIELD_SIZE, md.sz_album)
    ELSE cur

\* Impl_Update, lines 306-368: the store it leaves, from the store it finds,
\* the settings and the metadata DiscordRPC_GetCurrentMetadata has fetched.
UpdatedStore(old, stgs, md) ==
    IF UpdateSuspended(stgs) THEN old
    ELSE LET p0 == Memset(old)
         IN  IF md.b_is_playing
             THEN LET p1 == IF md.b_is_paused
                            THEN [p0 EXCEPT
                                    !.sz_small_image = Snprintf(FIELD_SIZE, Lit("pause")),
                                    !.sz_small_text = Snprintf(FIELD_SIZE, Lit("Paused"))]
                            ELSE [p0 EXCEPT
                                    !.sz_small_image = Snprintf(FIELD_SIZE, Lit("play")),
                                    !.sz_small_text = Snprintf(FIELD_SIZE, Lit("Playing")),
                                    !.i_start_time = md.i_start_time,
                                    !.i_end_time = md.i_end_time]
                  IN  [p1 EXCEPT
                         !.sz_large_image = Snprintf(FIELD_SIZE, Lit("large_image_default")),
                         !.sz_large_text = Snprintf(FIELD_SIZE, Lit("VLC Media Player")),
                         !.sz_state = StateLine(p1.sz_state, stgs, md),
                         !.sz_details = Snprintf(FIELD_SIZE, md.sz_title)]
             ELSE [p0 EXCEPT
                     !.sz_large_image = Snprintf(FIELD_SIZE, Lit("large_image_default")),
                     !.sz_large_text = Snprintf(FIELD_SIZE, Lit("VLC Media Player")),
                     !.sz_details = Snprintf(FIELD_SIZE, Lit("Idling"))]

\* What DiscordRPC_GetCurrentMetadata leaves when there is no input: zeroes.
NoMedia ==
    [b_is_playing |-> FALSE, b_is_paused |-> FALSE, sz_title |-> <<>>,
     sz_artist |-> <<>>, sz_album |-> <<>>, i_start_time |-> 0, i_end_time |-> 0]

\* Metadata of an active input: the title is never empty; artist and album
\* are empty, short, or as long as their fields allow.
ActiveMedia ==
    [b_is_playing : {TRUE}, b_is_paused : BOOLEAN, sz_title : {<<"t">>},
     sz_artist : {<<>>, <<"a">>, Repeated(<<"a">>, FIELD_SIZE - 1)},
     sz_album : {<<>>, <<"b">>, Repeated(<<"b">>, FIELD_SIZE - 1)},
     i_start_time : {3}, i_end_time : {0, 7}]

\* A store none of whose fields is what an update writes.
UsedStore ==
    [sz_state |-> <<"old">>, sz_details |-> <<"old">>, sz_large_image |-> <<"old">>,
     sz_large_text |-> <<"old">>, sz_small_image |-> <<"old">>,
     sz_small_text |-> <<"old">>, i_start_time |-> 5, i_end_time |-> 6]

UpdateInputs ==
    [old : {ZeroStore, UsedStore},
     stgs : [b_enabled : BOOLEAN, b_show_artist : BOOLEAN, b_show_album : BOOLEAN],
     md : {NoMedia} \cup ActiveMedia]

Apply_UpdatedStore ==
    /\ calc.fn = "UpdatedStore" /\ ~calc.done
    /\ calc' = [calc EXCEPT !.done = TRUE,
                            !.res = UpdatedStore(calc.arg.old, calc.arg.stgs, calc.arg.md)]
    /\ UNCHANGED SVars

\* ---- the application id of DiscordRPC_LoadSettings

DigitChars == <<"0", "1", "2", "3", "4", "5", "6", "7", "8", "9">>
IsDigit(c) == \E d \in 1..10 : DigitChars[d] = c
DigitVal(c) == (CHOOSE d \in 1..10 : DigitChars[d] = c) - 1

\* A number too large for TLC's integers is kept as its decimal digits
\* without leading zeros (zero is the empty sequence).
RECURSIVE StripZeros(_)
StripZeros(ds) ==
    IF ds # <<>> /\ ds[1] = "0" THEN StripZeros(Tail(ds)) ELSE ds

\* a > b for two such numbers
Greater(a, b) ==
    \/ Len(a) > Len(b)
    \/ /\ Len(a) = Len(b)
       /\ \E i \in 1..Len(a) :
            /\ DigitVal(a[i]) > DigitVal(b[i])
            /\ \A k \in 1..(i - 1) : a[k] = b[k]

\* ULLONG_MAX = 2^64 - 1
ULLONG_MAX_DIGITS ==
    <<"1", "8", "4", "4", "6", "7", "4", "4", "0", "7",
      "3", "7", "0", "9", "5", "5", "1", "6", "1", "5">>

\* settings.h:36
DEFAULT_CLIENT_ID ==
    <<"1", "0", "4", "1", "0", "1", "8", "2", "3", "4",
      "0", "5", "8", "5", "7", "1", "8", "4", "7">>

\* The first index at or after i that does not hold a character of set.
RECURSIVE SkipWhile(_, _, _)
SkipWhile(str, i, set) ==
    IF i <= Len(str) /\ str[i] \in set THEN SkipWhile(str, i + 1, set) ELSE i

\* strtoull(nptr, &endptr, 10): white space, an optional sign, digits.  The
\* value is [mag, neg]: neg says that the result is 2^64 - mag.  A number
\* above ULLONG_MAX gives ULLONG_MAX; with no digit nothing is converted and
\* endptr is nptr.  endp is the number of characters before *endptr.
Strtoull(nptr) ==
    LET afterSpace == SkipWhile(nptr, 1, {" "})
        signed == afterSpace <= Len(nptr) /\ nptr[afterSpace] \in {"+", "-"}
        first == IF signed THEN afterSpace + 1 ELSE afterSpace
        last == SkipWhile(nptr, first, {DigitChars[d] : d \in 1..10}) - 1
        mag == StripZeros(SubSeq(nptr, first, last))
    IN  IF last < first THEN [value |-> [mag |-> <<>>, neg |-> FALSE], endp |-> 0]
        ELSE IF Greater(mag, ULLONG_MAX_DIGITS)
        THEN [value |-> [mag |-> ULLONG_MAX_DIGITS, neg |-> FALSE], endp |-> last]
        ELSE [value |-> [mag |-> mag,
                         neg |-> signed /\ nptr[afterSpace] = "-" /\ mag # <<>>],
              endp |-> last]

\* settings.c:45
BadLength(i_len) == i_len < MIN_ID_LEN \/ i_len > MAX_ID_LEN

\* DiscordRPC_LoadSettings, lines 36-53: i_client_id from the configured
\* text, which var_InheritString may not have (NULL).
ClientId(cfg) ==
    IF cfg.present
    THEN LET r == Strtoull(cfg.text)
         IN  IF r.endp = 0 \/ r.endp # Len(cfg.text) \/ BadLength(Len(cfg.text))
             THEN Strtoull(DEFAULT_CLIENT_ID).value
             ELSE r.value
    ELSE Strtoull(DEFAULT_CLIENT_ID).value

\* Configured texts: around the two length limits, a run of digits with
\* nothing, a sign or a space before it and nothing, a letter or a space
\* after it; the largest id and the number after it; no text at all.
ClientIdInputs ==
    {[present |-> TRUE, text |-> pre \o Repeated(pat, n) \o suf] :
        pre \in {<<>>, <<"+">>, <<"-">>, <<" ">>},
        pat \in {<<"1">>, <<"9">>, <<"0">>, <<"1", "8", "4">>},
        n \in {0, 1} \cup ((MIN_ID_LEN - 2)..(MAX_ID_LEN + 1)),
        suf \in {<<>>, <<"x">>, <<" ">>}}
    \cup {[present |-> TRUE, text |-> ULLONG_MAX_DIGITS],
          [present |-> TRUE, text |-> SubSeq(ULLONG_MAX_DIGITS, 1, 19) \o <<"6">>],
          [present |-> FALSE, text |-> <<>>]}

Apply_ClientId ==
    /\ calc.fn = "ClientId" /\ ~calc.done
    /\ calc' = [calc EXCEPT !.done = TRUE, !.res = ClientId(calc.arg)]
    /\ UNCHANGED SVars

\* ---- the transfers of SendDiscordMessageSync

\* sizeof(vlc_discord_ipc_header_t): two uint32_t
HEADER_SIZE == 8

\* Variant: a response of exactly the maximum size is refused too.
ResponseTooLarge_Inclusive(i_length) == i_length >= MAX_MESSAGE_SIZE

\* metadata.c:785
ResponseTooLarge(i_length) == i_length > MAX_MESSAGE_SIZE

\* metadata.c:755
MessageTooLarge(json_len) == json_len > MAX_MESSAGE_SIZE

\* SendDiscordMessageSync on a valid handle, lines 754-841, by what the
\* transport and the allocator do (env): written is the number of bytes handed
\* to WriteAll, asked the number of body bytes ReadAll is asked for, got the
\* number of body bytes it has read.  env.wh, env.wb, env.rh say whether the
\* transfer of the outbound header, the outbound body and the response header
\* succeeds; env.mem whether malloc does; env.rb is the number of body bytes
\* that arrive; env.b_success what the search for the markers gives.
SendSync(json_len, i_length, env) ==
    LET fail(wr, ask, rd) == [ok |-> FALSE, written |-> wr, asked |-> ask, got |-> rd]
    IN  IF MessageTooLarge(json_len) THEN fail(0, 0, 0)
        ELSE IF ~env.wh THEN fail(HEADER_SIZE, 0, 0)
        ELSE IF ~env.wb THEN fail(HEADER_SIZE + json_len, 0, 0)
        ELSE IF ~env.rh THEN fail(HEADER_SIZE + json_len, 0, 0)
        ELSE IF ResponseTooLarge(i_length) THEN fail(HEADER_SIZE + json_len, 0, 0)
        ELSE IF i_length > 0
        THEN IF ~env.mem THEN fail(HEADER_SIZE + json_len, 0, 0)
             ELSE LET got == IF env.rb < i_length THEN env.rb ELSE i_length
                  IN  IF got < i_length THEN fail(HEADER_SIZE + json_len, i_length, got)
                      ELSE [ok |-> env.b_success, written |-> HEADER_SIZE + json_len,
                            asked |-> i_length, got |-> got]
        ELSE [ok |-> EmptyResponseResult, written |-> HEADER_SIZE + json_len,
              asked |-> 0, got |-> 0]

\* Lengths at and around the maximum message size; the peer sends nothing, one
\* byte less than it declared, or (at least) all of it.
SendSyncInputs ==
    [json_len : {0, 1, MAX_MESSAGE_SIZE, MAX_MESSAGE_SIZE + 1},
     i_length : {0, 1, MAX_MESSAGE_SIZE, MAX_MESSAGE_SIZE + 1, 2 * MAX_MESSAGE_SIZE},
     env : [wh : BOOLEAN, wb : BOOLEAN, rh : BOOLEAN, mem : BOOLEAN,
            rb : {0, MAX_MESSAGE_SIZE - 1, 2 * MAX_MESSAGE_SIZE},
            b_success : BOOLEAN]]

Apply_SendSync ==
    /\ calc.fn = "SendSync" /\ ~calc.done
    /\ calc' = [calc EXCEPT !.done = TRUE,
                            !.res = SendSync(calc.arg.json_len, calc.arg.i_length,
                                             calc.arg.env)]
    /\ UNCHANGED SVars

\* ---- WriteAll and ReadAll

\* What the operating system does at one turn of the POSIX loops: poll times
\* out (or fails), poll reports POLLHUP or POLLERR, or the descriptor is ready
\* and send/recv moves n bytes, returns 0, or fails with an errno.
Ev(kind, n) == [kind |-> kind, n |-> n]
PosixEvents ==
    {Ev(k, 0) : k \in {"timeout", "hup", "zero", "EPIPE", "ECONNRESET",
                       "EAGAIN", "EINTR", "EIO"}}
    \cup {Ev("bytes", n) : n \in 1..MaxXfer}

\* The turn k of the loop; the peer that stays silent makes poll time out.
EventAt(env, k) == IF k <= Len(env) THEN env[k] ELSE Ev("timeout", 0)

\* The result of a transfer: moved is the number of bytes transferred, errpipe
\* the value left in *bp_errpipe (has_out: the caller passed one), why the
\* event that ended a failed transfer.
Xfer(ok, moved, errpipe, why) ==
    [ok |-> ok, moved |-> moved, errpipe |-> errpipe, why |-> why]

\* WriteAll, lines 626-652.
RECURSIVE WriteAllPosix(_, _, _, _, _)
WriteAllPosix(i_size, has_out, env, k, i_sent) ==
    IF ~(i_sent < i_size) THEN Xfer(TRUE, i_sent, FALSE, "none")
    ELSE LET e == EventAt(env, k)
         IN  IF e.kind = "timeout" THEN Xfer(FALSE, i_sent, FALSE, e.kind)
             ELSE IF e.kind = "hup" THEN Xfer(FALSE, i_sent, has_out, e.kind)
             ELSE IF e.kind # "bytes"
             THEN Xfer(FALSE, i_sent, e.kind = "EPIPE" /\ has_out, e.kind)
             ELSE LET i_bytes == IF e.n < i_size - i_sent THEN e.n ELSE i_size - i_sent
                  IN  WriteAllPosix(i_size, has_out, env, k + 1, i_sent + i_bytes)

\* ReadAll, lines 707-738.
RECURSIVE ReadAllPosix(_, _, _, _, _)
ReadAllPosix(i_size, has_out, env, k, i_received) ==
    IF ~(i_received < i_size) THEN Xfer(TRUE, i_received, FALSE, "none")
    ELSE LET e == EventAt(env, k)
         IN  IF e.kind = "timeout" THEN Xfer(FALSE, i_received, FALSE, e.kind)
             ELSE IF e.kind = "hup" THEN Xfer(FALSE, i_received, has_out, e.kind)
             ELSE IF e.kind = "zero" THEN Xfer(FALSE, i_received, has_out, e.kind)
             ELSE IF e.kind = "EINTR"
             THEN ReadAllPosix(i_size, has_out, env, k + 1, i_received)
             ELSE IF e.kind = "EAGAIN" THEN Xfer(TRUE, i_received, FALSE, e.kind)
             ELSE IF e.kind # "bytes"
             THEN Xfer(FALSE, i_received, e.kind = "ECONNRESET" /\ has_out, e.kind)
             ELSE LET i_bytes == IF e.n < i_size - i_received THEN e.n
                                 ELSE i_size - i_received
                  IN  ReadAllPosix(i_size, has_out, env, k + 1, i_received + i_bytes)

\* The last errors the Windows code tells a closed peer by.
WriteGone == {"ERROR_BROKEN_PIPE", "ERROR_NO_DATA", "ERROR_PIPE_NOT_CONNECTED"}
ReadGone == {"ERROR_BROKEN_PIPE", "ERROR_PIPE_NOT_CONNECTED"}

\* WriteAll (580-624) and ReadAll (662-705) on Windows, which differ by the
\* set gone of last errors only.  env.event: CreateEvent succeeds; env.call:
\* WriteFile/ReadFile returns TRUE having moved env.n bytes ("done") or fails
\* with that last error; env.wait: the wait for the pending transfer ends
\* before the timeout; env.ov: what GetOverlappedResult, whose result the code
\* does not look at, finds: "done" with env.n bytes moved, or an error with
\* none moved.
TransferWin(gone, i_size, has_out, env) ==
    LET n == IF env.n < i_size THEN env.n ELSE i_size
    IN  IF ~env.event THEN Xfer(FALSE, 0, FALSE, "no_event")
        ELSE IF env.call = "done" THEN Xfer(n = i_size, n, FALSE, "short")
        ELSE IF env.call \in gone THEN Xfer(FALSE, 0, has_out, env.call)
        ELSE IF env.call = "ERROR_IO_PENDING"
        THEN IF env.wait
             THEN IF env.ov = "done" THEN Xfer(n = i_size, n, FALSE, "short")
                  ELSE Xfer(0 = i_size, 0, FALSE, env.ov)
             ELSE Xfer(FALSE, 0, FALSE, "timeout")
        ELSE Xfer(FALSE, 0, FALSE, env.call)

WinEnvs ==
    [event : BOOLEAN,
     call : {"done", "ERROR_IO_PENDING", "ERROR_BROKEN_PIPE", "ERROR_NO_DATA",
             "ERROR_PIPE_NOT_CONNECTED", "ERROR_INVALID_HANDLE"},
     wait : BOOLEAN,
     ov : {"done", "ERROR_BROKEN_PIPE", "ERROR_OPERATION_ABORTED"},
     n : 0..MaxXfer]

WriteAll(os, i_size, has_out, env, wenv) ==
    IF os = "win" THEN TransferWin(WriteGone, i_size, has_out, wenv)
    ELSE WriteAllPosix(i_size, has_out, env, 1, 0)

ReadAll(os, i_size, has_out, env, wenv) ==
    IF os = "win" THEN TransferWin(ReadGone, i_size, has_out, wenv)
    ELSE ReadAllPosix(i_size, has_out, env, 1, 0)

\* env is what the operating system does on a POSIX build, wenv on Windows.
TransferInputs ==
    [dir : {"write", "read"}, os : {"posix"}, i_size : 0..MaxXfer, has_out : BOOLEAN,
     env : SeqsUpTo(PosixEvents, MaxIoSteps),
     wenv : {[event |-> FALSE, call |-> "done", wait |-> FALSE, ov |-> "done",
              n |-> 0]}]
    \cup [dir : {"write", "read"}, os : {"win"}, i_size : 0..MaxXfer, has_out : BOOLEAN,
          env : {<<>>}, wenv : WinEnvs]

Apply_WriteAll ==
    /\ calc.fn = "Transfer" /\ calc.arg.dir = "write" /\ ~calc.done
    /\ calc' = [calc EXCEPT !.done = TRUE,
                            !.res = WriteAll(calc.arg.os, calc.arg.i_size,
                                             calc.arg.has_out, calc.arg.env, calc.arg.wenv)]
    /\ UNCHANGED SVars

Apply_ReadAll ==
    /\ calc.fn = "Transfer" /\ calc.arg.dir = "read" /\ ~calc.done
    /\ calc' = [calc EXCEPT !.done = TRUE,
                            !.res = ReadAll(calc.arg.os, calc.arg.i_size,
                                            calc.arg.has_out, calc.arg.env, calc.arg.wenv)]
    /\ UNCHANGED SVars

CalcInputs ==
    {[fn |-> "SetActivityBody", arg |-> a, done |-> FALSE, res |-> NoReport] :
        a \in BodyInputs}
    \cup {[fn |-> "Transfer", arg |-> a, done |-> FALSE, res |-> NoReport] :
        a \in TransferInputs}
    \cup {[fn |-> "SendSync", arg |-> a, done |-> FALSE, res |-> NoReport] :
        a \in SendSyncInputs}
    \cup {[fn |-> "ClientId", arg |-> a, done |-> FALSE, res |-> NoReport] :
        a \in ClientIdInputs}
    \cup {[fn |-> "UpdatedStore", arg |-> a, done |-> FALSE, res |-> NoReport] :
        a \in UpdateInputs}
    \cup {[fn |-> "ActivityJson", arg |-> a, done |-> FALSE, res |-> NoReport] :
        a \in PresenceInputs}
    \cup {[fn |-> "ResponseResult", arg |-> a, done |-> FALSE, res |-> NoReport] :
        a \in ResponseInputs}
    \cup {[fn |-> "JsonEscape", arg |-> a, done |-> FALSE, res |-> NoReport] :
        a \in EscapeInputs}

NextFunctions ==
    \/ Apply_ResponseResult
    \/ Apply_JsonEscape
    \/ Apply_ActivityJson
    \/ Apply_UpdatedStore
    \/ Apply_ClientId
    \/ Apply_SendSync
    \/ Apply_SetActivityBody
    \/ Apply_WriteAll
    \/ Apply_ReadAll

\* The functions do not read the session's variables, which stay as one
\* construction leaves them.
InitFunctions ==
    /\ SessionInit
    /\ platform = "posix" /\ xdg /\ settings.b_enabled
    /\ calc \in CalcInputs

SpecFunctions == InitFunctions /\ [][NextFunctions]_vars

\* -------------------------------------------------------- properties ----
\* Positions inside SendDiscordMessageSync: one request/response exchange in flight.
ExchangePcs == {"ss_whdr", "ss_wbody", "ss_rhdr", "ss_rbody"}

\* C1 (as amended): when stop() was called in Connected, it has returned only after
\* the worker exited and the transport was closed, and before closing the worker made
\* exactly one clear-activity send attempt -- or none, when a presence send still in
\* progress reported peer-closed and the handle was closed at that report.
C1_StopWhileConnected ==
    /\ (cpc = "closed" /\ obs.stopAt = "connected") =>
          /\ \A t \in Threads : ~Alive(t)
          /\ open = {}
          /\ trk[thread].clears = IF trk[thread].torn THEN 0 ELSE 1
    /\ (io.op = "close" /\ io.msg = "shutdown") => trk[io.t].clears = 1

\* stop() called in Connected has returned after one clear-activity attempt and the
\* close.
C1_Witness ==
    /\ cpc = "closed"
    /\ obs.stopAt = "connected"
    /\ trk[thread].clears = 1
    /\ ~trk[thread].torn

\* C1 as stated: stop() called in Connected always results in exactly one
\* clear-activity send attempt.
C1_ExactlyOneClear ==
    (cpc = "closed" /\ obs.stopAt = "connected") => trk[thread].clears = 1

\* C2: after stop() or setEnabled(false) has returned, and until the session is
\* started or enabled again, no transport operation is performed.
C2_NoIoAfterStop == obs.quiet => io.op = "none"

\* setEnabled(false) has returned after a worker sent its clear-activity message.
C2_Witness ==
    /\ obs.quiet
    /\ cpc = "idle"
    /\ \E t \in Threads : trk[t].clears = 1

\* C3 as stated: at most one worker thread running the session loop exists.
C3_AtMostOneWorker == Cardinality({t \in Threads : Alive(t)}) <= 1

\* C4: a set-activity message is written, and its response read, only on a valid,
\* open handle of a connected session; an exchange is entered only with a valid
\* handle and under the IPC mutex, so at most one is in flight.
C4_NoPresenceWhileDisconnected ==
    /\ (io.op \in {"write", "read"} /\ io.msg = "set_activity") =>
          /\ io.h # INVALID_PIPE
          /\ io.live
          /\ ipcd[w[io.t].self].b_connected
    /\ \A t \in Threads :
          w[t].pc \in ExchangePcs =>
             /\ ipcd[w[t].self].handle # INVALID_PIPE
             /\ ipcd[w[t].self].lock = Worker(t)
    /\ Cardinality({t \in Threads : w[t].pc \in ExchangePcs}) <= 1

\* A set-activity message has just been written.
C4_Witness == io.op = "write" /\ io.msg = "set_activity"

\* C5 as stated: no read, write or close is issued on a handle that was already
\* closed.
C5_NoUseOfClosedHandle == io.op \in {"write", "read", "close"} => io.live

\* C6: at most one transport handle is open; a handle is opened only when none is
\* open; and while the Connector is between candidates, has failed, or the loop is
\* waiting to retry, no handle is open.
C6_AtMostOneHandle ==
    /\ Cardinality(open) <= 1
    /\ (io.op = "open" => open = {io.h})
    /\ \A t \in Threads :
          w[t].pc \in {"conn_call", "conn_lock", "c_sock", "c_wait", "c_create",
                       "c_fail", "sleep1"} => open = {}

\* The last candidate's handle has just been closed and the Connector fails.
C6_Witness ==
    /\ io.op = "close"
    /\ open = {}
    /\ \E t \in Threads : w[t].pc = "c_fail"

\* C7 as stated: every read and write of the Presence Store happens while the
\* store's mutex is held by the accessing thread.
C7_StoreAccessUnderMutex == sa.kind # "none" => sa.held

\* C8 as stated: no thread performs a transport write or read while it holds the
\* Presence Store mutex.
C8_NoIoUnderStoreMutex == io.op \in {"write", "read"} => lock # Worker(io.t)

\* A presence send of worker t has reported peer-closed and no handle has been
\* opened since.
PeerClosed(t) ==
    /\ Alive(t)
    /\ \/ trk[t].torn
       \/ w[t].pc = "sp_after" /\ w[t].errpipe

\* C9: once a presence send has reported peer-closed, the worker's next transport
\* operation is the close of that handle, after which the stored handle is invalid and
\* connected is false, and the one after that is the opening of a new handle by the
\* Connector: nothing more is written to or read from the old handle.
C9_TeardownThenConnect ==
    [][\A t \in Threads :
          PeerClosed(t) =>
             /\ trk[t].torn =>
                   /\ ipcd[w[t].self].handle = INVALID_PIPE
                   /\ ~ipcd[w[t].self].b_connected
             /\ (w'[t] # w[t] /\ io'.op # "none") =>
                   io'.op = (IF trk[t].torn THEN "open" ELSE "close")]_vars

\* After a peer-closed teardown, with the run flag set, the worker is back in the
\* Connector and has not opened a handle yet.
C9_Witness ==
    \E t \in Threads :
       /\ trk[t].torn
       /\ b_run
       /\ w[t].pc \in {"c_sock", "c_wait"}

\* C10: when the worker enters Connected after N failed connect attempts (N up to
\* MaxFails) it has made exactly N + 1 attempts and paused exactly N times.
C10_RetryCount ==
    \A t \in Threads :
       (w[t].pc = "set_start" /\ trk[t].fail <= MaxFails) =>
          /\ trk[t].att = trk[t].fail + 1
          /\ trk[t].pau = trk[t].fail

\* The worker enters Connected after MaxFails failed attempts.
C10_Witness ==
    \E t \in Threads :
       /\ w[t].pc = "set_start"
       /\ trk[t].fail = MaxFails
       /\ trk[t].att = MaxFails + 1
       /\ trk[t].pau = MaxFails

\* C11 as stated: a worker whose connect attempts have not succeeded since the last
\* disconnect (connected is false) writes no set-activity and no clear-activity
\* message, in particular when it exits on a stop request.
C11_NoMessageUnlessConnected ==
    (io.op = "write" /\ io.msg \in {"set_activity", "clear_activity"}) =>
       ipcd[w[io.t].self].b_connected

\* Worker t is inside Impl_Connect, between the lock and the return.
InConnect(t) ==
    \/ w[t].pc \in {"c_sock", "c_conn1", "c_fb", "c_wait", "c_create", "c_close",
                    "c_fail", "c_ok"}
    \/ w[t].pc \in ExchangePcs /\ w[t].ctx \in {"conn1", "conn2"}

\* C12: one connect call starts at candidate 0 and moves only from candidate i to
\* i + 1, after i has failed; it fails only after candidate 9; after a candidate's
\* handshake succeeded it tries no further index and returns with that candidate's
\* handle stored and open and connected set to true.
C12_CandidateOrder ==
    [][\A t \in Threads :
          /\ (~InConnect(t) /\ InConnect(t)') => w'[t].i = 0
          /\ InConnect(t) =>
                /\ w[t].i \in 0..MAX_PIPE_ATTEMPTS
                /\ (w[t].pc = "c_fail") = (w[t].i = MAX_PIPE_ATTEMPTS)
          /\ (InConnect(t) /\ InConnect(t)') =>
                /\ w'[t].i \in {w[t].i, w[t].i + 1}
                /\ (w'[t].i = w[t].i + 1) =>
                      /\ w[t].pc # "c_ok"
                      /\ w'[t].pc \in {"c_sock", "c_wait", "c_fail"}
          /\ (w[t].pc = "c_ok" /\ w'[t] # w[t]) =>
                /\ w'[t].pc = "chk233"
                /\ ipcd'[w[t].self].handle = ipcd[w[t].self].handle
                /\ ipcd'[w[t].self].handle \in open'
                /\ ipcd'[w[t].self].b_connected]_vars

\* The last candidate, index 9, has completed its handshake after 0..8 failed.
C12_Witness ==
    \E t \in Threads : w[t].pc = "c_ok" /\ w[t].i = MAX_PIPE_ATTEMPTS - 1

\* C13: start() with presence reporting disabled returns success, spawns no worker,
\* leaves the run flag clear and performs no transport operation: it changes nothing
\* but the caller's position, so repeating it leaves the state as it is.
C13_StartDisabledNoOp ==
    [][(Impl_InitializePresence /\ ~settings.b_enabled) =>
          /\ cpc' = "idle"
          /\ ~b_run /\ ~b_run'
          /\ \A t \in Threads : ~Alive(t) /\ ~Alive(t)'
          /\ io' = io /\ io.op = "none"
          /\ UNCHANGED <<settings, thread, w, lock, presence, metadata, ipc, ipcd,
                         open, trk, obs>>]_vars

\* start() has returned with presence reporting disabled: no thread was ever cloned.
C13_Witness ==
    /\ cpc = "idle"
    /\ ~settings.b_enabled
    /\ thread = 0
    /\ ~b_run

\* C14: setEnabled(true) with the run flag clear sets it and clones one worker at the
\* start of the session loop (or, the clone failing, leaves the flag clear and no
\* worker), as start() does; with the run flag set it changes nothing but the enabled
\* setting; setEnabled(false) with the run flag set clears it and returns only once
\* the worker has exited; and no step changes the application id or the show-artist
\* and show-album settings, which a worker started later reads.
C14_SetEnabledFrame ==
    [][/\ (Impl_SetEnabled(TRUE) /\ ~b_run) =>
             \/ /\ b_run'
                /\ \E t \in Threads :
                      /\ ~Alive(t)
                      /\ thread' = t
                      /\ w' = [w EXCEPT ![t] = [NoWorker EXCEPT !.pc = "start"]]
             \/ /\ ~b_run'
                /\ UNCHANGED <<thread, w>>
       /\ (Impl_SetEnabled(TRUE) /\ b_run) =>
             UNCHANGED <<b_run, thread, w, lock, presence, ipc, ipcd, open, io, cpc>>
       /\ (Impl_SetEnabled(FALSE) /\ b_run) =>
             /\ ~b_run'
             /\ cpc' = "join_dis"
             /\ UNCHANGED <<thread, w, presence>>
       /\ (cpc = "join_dis" /\ cpc' # cpc) =>
             /\ cpc' = "idle"
             /\ w[thread].pc = "exited"
             /\ ~Alive(thread)'
       /\ settings'.i_client_id = settings.i_client_id
       /\ settings'.b_show_artist = settings.b_show_artist
       /\ settings'.b_show_album = settings.b_show_album]_vars

\* setEnabled(false) has returned after joining a worker; the application id is the
\* configured one.
C14_Witness ==
    /\ cpc = "idle"
    /\ obs.quiet
    /\ ~settings.b_enabled
    /\ thread # 0
    /\ settings.i_client_id = LoadedSettings(FALSE).i_client_id

\* C15: while presence reporting is disabled, requestUpdate returns at once: the
\* caller never enters the locked part of Impl_Update, and no step of the caller
\* changes the Presence Store or the fetched metadata.
C15_UpdateSuspended ==
    [][~settings.b_enabled =>
          /\ cpc \notin {"upd_lock", "upd_write"}
          /\ cpc' \notin {"upd_lock", "upd_write"}
          /\ Update_Begin => (cpc' = "idle" /\ UNCHANGED <<presence, metadata, lock>>)
          /\ metadata' = metadata
          /\ presence' # presence => (sa'.kind = "write" /\ sa'.by # Caller)]_vars

\* Presence reporting was disabled after an update had filled the store: the store
\* keeps that content.
C15_Witness ==
    /\ cpc = "idle"
    /\ obs.quiet
    /\ ~settings.b_enabled
    /\ presence.kind \in {"playing", "paused", "idle"}

\* C16: SendSync returns success exactly when the response body contains one
\* of the three markers, failure for every other body (one with no content at
\* all included), and on failure reports the content of a "message" field
\* when the body has one.
C16_SuccessIffMarker ==
    calc.fn = "ResponseResult" /\ calc.done =>
        LET body == calc.arg.response
            HasMarker == \E i \in 1..Len(body) : body[i] \in SuccessMarkers
        IN  /\ calc.res.ok <=> HasMarker
            /\ ~calc.res.ok /\ (\E i \in 1..Len(body) : body[i] = "message")
                    /\ (\E i, e \in 1..Len(body) :
                            i < e /\ body[i] = "message" /\ body[e] = "quote")
                 => calc.res.report.kind = "message"

\* C17 as stated: each of the six keys appears in the activity object if and
\* only if its Presence field is non-empty, the assets object appears if and
\* only if one of the four image/text fields is non-empty, and with all
\* fields empty and no timestamps the activity object is {}.
C17_KeysIffNonEmpty ==
    calc.fn = "ActivityJson" /\ calc.done =>
        LET p == calc.arg
            keys == Range(calc.res)
        IN  /\ \A f \in TextFields : KeyOf(f) \in keys <=> p[f] # <<>>
            /\ "assets" \in keys <=>
                    \E f \in {"sz_large_image", "sz_large_text",
                              "sz_small_image", "sz_small_text"} : p[f] # <<>>
            /\ (\A f \in TextFields : p[f] = <<>>) /\ p.i_start_time <= 0
                    => calc.res = <<>>

\* C17, amended: state, details, large_image and small_image appear if and
\* only if their field is non-empty; large_text and small_text appear if and
\* only if their field is non-empty and one of the two images is non-empty;
\* the assets object appears if and only if one of the two images is
\* non-empty; with all fields empty and no timestamps the object is {}.
C17_KeysAndAssets ==
    calc.fn = "ActivityJson" /\ calc.done =>
        LET p == calc.arg
            keys == Range(calc.res)
            image == p.sz_large_image # <<>> \/ p.sz_small_image # <<>>
        IN  /\ \A f \in {"sz_state", "sz_details", "sz_large_image", "sz_small_image"} :
                    KeyOf(f) \in keys <=> p[f] # <<>>
            /\ \A f \in {"sz_large_text", "sz_small_text"} :
                    KeyOf(f) \in keys <=> p[f] # <<>> /\ image
            /\ "assets" \in keys <=> image
            /\ (\A f \in TextFields : p[f] = <<>>) /\ p.i_start_time <= 0
                    => calc.res = <<>>

\* A presence with a hover text and no image has been turned into an
\* activity object: the text is not in it.
C17_Witness ==
    /\ calc.fn = "ActivityJson" /\ calc.done
    /\ calc.arg.sz_large_text # <<>>
    /\ calc.arg.sz_large_image = <<>> /\ calc.arg.sz_small_image = <<>>
    /\ "large_text" \notin Range(calc.res)

\* C18: the activity object holds a timestamps object if and only if
\* start > 0, and inside it an end key if and only if end > 0; when start is
\* not positive neither start nor end is sent, whatever end is.
C18_Timestamps ==
    calc.fn = "ActivityJson" /\ calc.done =>
        LET p == calc.arg
            keys == Range(calc.res)
        IN  /\ "timestamps" \in keys <=> p.i_start_time > 0
            /\ "start" \in keys <=> p.i_start_time > 0
            /\ "end" \in keys <=> p.i_start_time > 0 /\ p.i_end_time > 0

\* A presence with an end time and no start time has been turned into an
\* activity object.
C18_Witness ==
    /\ calc.fn = "ActivityJson" /\ calc.done
    /\ calc.arg.i_start_time = 0 /\ calc.arg.i_end_time > 0
    /\ "end" \notin Range(calc.res)

\* C19: a source string of at most 127 characters, escaped into a 256-byte
\* destination and then un-escaped, is the original string.
C19_EscapeRoundTrip ==
    /\ calc.fn = "JsonEscape" /\ calc.done
    /\ calc.arg.i_max = ESCAPED_SIZE
    /\ Len(calc.arg.psz_src) <= FIELD_SIZE - 1
    => Unescape(calc.res.str) = calc.arg.psz_src

\* A full field made only of escaped characters has been escaped: its copy
\* fills the destination up to the last byte before the terminator.
C19_Witness ==
    /\ calc.fn = "JsonEscape" /\ calc.done
    /\ calc.arg.i_max = ESCAPED_SIZE
    /\ Len(calc.arg.psz_src) = FIELD_SIZE - 1
    /\ \A k \in 1..Len(calc.arg.psz_src) : NeedsEscape(calc.arg.psz_src[k])
    /\ calc.res.term = ESCAPED_SIZE - 2

StateLineText(stgs, md) ==
    LET artist == stgs.b_show_artist /\ md.sz_artist # <<>>
        album == stgs.b_show_album /\ md.sz_album # <<>>
    IN  IF artist /\ album THEN md.sz_artist \o <<" ", "-", " ">> \o md.sz_album
        ELSE IF artist THEN md.sz_artist
        ELSE IF album THEN md.sz_album
        ELSE <<>>

\* C21 as stated: after requestUpdate with active media the state field
\* equals "Artist - Album" when both are shown, the artist alone or the album
\* alone when only that one is shown, and the empty string otherwise.
C21_StateLine ==
    calc.fn = "UpdatedStore" /\ calc.done /\ calc.arg.md.b_is_playing =>
        calc.res.sz_state = StateLineText(calc.arg.stgs, calc.arg.md)

\* C21, amended: with reporting enabled, after requestUpdate with active
\* media the state field holds the first 127 characters of that text.
C21_StateLineTruncated ==
    /\ calc.fn = "UpdatedStore" /\ calc.done
    /\ calc.arg.stgs.b_enabled /\ calc.arg.md.b_is_playing
    => LET text == StateLineText(calc.arg.stgs, calc.arg.md)
       IN  calc.res.sz_state =
              IF Len(text) <= FIELD_SIZE - 1 THEN text
              ELSE SubSeq(text, 1, FIELD_SIZE - 1)

\* An update has composed the state line from an artist and an album that
\* do not fit the field together.
C21_Witness ==
    /\ calc.fn = "UpdatedStore" /\ calc.done
    /\ calc.arg.stgs.b_enabled /\ calc.arg.md.b_is_playing
    /\ calc.arg.stgs.b_show_artist /\ calc.arg.stgs.b_show_album
    /\ Len(calc.arg.md.sz_artist) = FIELD_SIZE - 1 /\ calc.arg.md.sz_album # <<>>
    /\ calc.res.sz_state = calc.arg.md.sz_artist

\* C22 as stated: after requestUpdate returns, the store holds the idling
\* presence with no active media, the paused small image/text and
\* start = end = 0 with paused media, the playing small image/text and the
\* metadata's start/end with playing media, and nothing of its previous
\* content.
C22_StoreAfterUpdate ==
    calc.fn = "UpdatedStore" /\ calc.done =>
        LET p == calc.res
            md == calc.arg.md
        IN  /\ ~md.b_is_playing =>
                  /\ p.sz_details = <<"Idling">>
                  /\ p.sz_large_image = <<"large_image_default">>
                  /\ p.sz_large_text = <<"VLC Media Player">>
                  /\ p.sz_state = <<>> /\ p.sz_small_image = <<>> /\ p.sz_small_text = <<>>
                  /\ p.i_start_time = 0 /\ p.i_end_time = 0
            /\ md.b_is_playing /\ md.b_is_paused =>
                  /\ p.sz_small_image = <<"pause">> /\ p.sz_small_text = <<"Paused">>
                  /\ p.i_start_time = 0 /\ p.i_end_time = 0
            /\ md.b_is_playing /\ ~md.b_is_paused =>
                  /\ p.sz_small_image = <<"play">> /\ p.sz_small_text = <<"Playing">>
                  /\ p.i_start_time = md.i_start_time /\ p.i_end_time = md.i_end_time
            /\ \A f \in TextFields : p[f] # <<"old">>
            /\ p = UpdatedStore(ZeroStore, calc.arg.stgs, md)

\* C22, amended: the same, for a requestUpdate made while presence reporting
\* is enabled.
C22_StoreAfterEnabledUpdate ==
    calc.fn = "UpdatedStore" /\ calc.arg.stgs.b_enabled => C22_StoreAfterUpdate

\* An update with paused media has rewritten a store that held other content.
C22_Witness ==
    /\ calc.fn = "UpdatedStore" /\ calc.done /\ calc.arg.stgs.b_enabled
    /\ calc.arg.old = UsedStore
    /\ calc.arg.md.b_is_playing /\ calc.arg.md.b_is_paused
    /\ calc.res.sz_small_text = <<"Paused">> /\ calc.res.i_start_time = 0

\* C23: loadSettings yields the configured id only when the configured text
\* is 17 to 20 decimal digits and nothing else, and then the id is the exact
\* value of that digit string; for every other text the default id is
\* substituted.
C23_ClientIdFromDigits ==
    calc.fn = "ClientId" /\ calc.done =>
        LET text == calc.arg.text
            accepted == /\ calc.arg.present
                        /\ Len(text) >= MIN_ID_LEN /\ Len(text) <= MAX_ID_LEN
                        /\ \A i \in 1..Len(text) : IsDigit(text[i])
        IN  calc.res = IF accepted
                       THEN [mag |-> StripZeros(text), neg |-> FALSE]
                       ELSE [mag |-> DEFAULT_CLIENT_ID, neg |-> FALSE]

\* C24: within one connect call, no candidate (the next index, or the
\* fallback directory for the same index) is attempted before the handle of
\* the candidate that failed before it has been closed: every candidate is
\* attempted on a newly opened handle.
C24_FreshHandlePerCandidate ==
    \A t \in Threads :
        w[t].pc \in {"c_sock", "c_wait", "c_create", "c_fb"} =>
            ipcd[w[t].self].handle \notin open

\* C25: on every handle the first message written is a handshake, and every
\* data frame (set-activity or clear-activity) written on a handle comes after
\* a handshake on that handle whose response was taken for a success.
C25_HandshakeFirst ==
    /\ \A t \in Threads : trk[t].hs # "misused"
    /\ (io.op = "write" /\ io.msg \in {"set_activity", "clear_activity"}) =>
          trk[io.t].hs = "ready"

SoftFailures == {"timeout", "big", "failure", "nomem"}

\* C27: a presence send that fails for a reason other than a peer-closed
\* report leaves the handle open and the connected flag true, and the worker
\* stays in the update loop (it pauses and sends again) without calling
\* connect, unless a stop has been requested.
C27_SoftFailureKeepsConnection ==
    [][\A t \in Threads :
         w[t].res \in SoftFailures =>
            /\ w[t].pc \in {"sp_after", "upd_unlock", "chk245", "chk247"}
            /\ ipcd[w[t].self].handle # INVALID_PIPE
            /\ ipcd[w[t].self].handle \in open
            /\ ipcd[w[t].self].b_connected
            /\ w[t].pc = "chk245" =>
                  w'[t].pc \in {"chk245", "chk247"} \/ (~b_run /\ w'[t].pc = "chk253")
            /\ w[t].pc = "chk247" => w'[t].pc \in {"chk247", "sleep2"}]_vars

\* The peer has answered a presence send with an error; the worker, still
\* connected, is about to pause before the next send.
C27_Witness ==
    \E t \in Threads :
        /\ w[t].pc = "chk247" /\ w[t].res = "failure"
        /\ b_run /\ ipcd[w[t].self].b_connected
        /\ ipcd[w[t].self].handle \in open

\* C28: WriteAll and ReadAll return success only when exactly the requested
\* number of bytes has been transferred.
C28_SuccessMeansAllBytes ==
    calc.fn = "Transfer" /\ calc.done /\ calc.res.ok =>
        calc.res.moved = calc.arg.i_size

\* What ends a transfer because the peer is gone: POLLHUP/POLLERR, end of
\* file, a broken pipe, a connection reset.
PeerGone ==
    {"hup", "zero", "EPIPE", "ECONNRESET", "ERROR_BROKEN_PIPE", "ERROR_NO_DATA",
     "ERROR_PIPE_NOT_CONNECTED"}

\* C29: in WriteAll and ReadAll (called with an out-signal) every failure
\* caused by the peer having closed, a broken pipe or a connection reset sets
\* the peer-closed out-signal, and a failure caused only by the timeout never
\* sets it.
C29_PeerClosedSignalled ==
    calc.fn = "Transfer" /\ calc.done /\ calc.arg.has_out /\ ~calc.res.ok =>
        /\ calc.res.why \in PeerGone
              /\ ~(calc.arg.dir = "write" /\ calc.res.why = "zero")
              /\ ~(calc.arg.dir = "read" /\ calc.res.why \in {"EPIPE", "ERROR_NO_DATA"})
           => calc.res.errpipe
        /\ calc.res.why = "timeout" => ~calc.res.errpipe

\* C30: under every interleaving of requestUpdate with the worker's connect
\* and send steps, every set-activity message written while the most recent
\* requestUpdate saw no active media, or paused media, carries no timestamps
\* object (Impl_SetPresence writes one exactly when the start time it was
\* given is set).
C30_NoTimestampsWhenIdleOrPaused ==
    (io.op = "write" /\ io.msg = "set_activity" /\ metadata \in {"none", "paused"}) =>
        w[io.t].stamp = TimeUnset

\* Where a worker is inside Impl_Connect, Impl_SetPresence or the Impl_Close of
\* discordipc.c, past the vlc_mutex_lock.
InIpcCall(t) ==
    \/ InConnect(t)
    \/ w[t].pc \in ExchangePcs \cup {"sp_after", "cl_close"}

\* Where a worker is between the lock and the unlock of lines 241-243.
InSendStep(t) ==
    w[t].pc \in ExchangePcs \cup {"setp_call", "setp_lock", "sp_after", "upd_unlock"}

\* C33: every operation that takes a mutex has released it when it returns:
\* outside requestUpdate the caller does not own the store mutex, outside its
\* send step a worker does not own it, and outside connect, set-presence and
\* ipc close a worker owns no IPC mutex.
C33_MutexReleasedOnReturn ==
    ~crashed =>
        /\ cpc # "upd_write" => lock # Caller
        /\ \A t \in Threads :
              /\ ~InSendStep(t) => lock # Worker(t)
              /\ ~InIpcCall(t) => \A a \in Threads : ipcd[a].lock # Worker(t)

\* A set-presence call has returned through each of its exits: the peer-closed
\* teardown, an allocation failure, a failed send, a success.
C33_Witness ==
    \E t \in Threads :
        /\ w[t].pc = "upd_unlock"
        /\ w[t].res = "closed"
        /\ trk[t].torn
        /\ ipcd[w[t].self].lock = Free

C37_ConnectedIffHandle ==
    \A t \in Threads :
        (Alive(t) /\ ipcd[t].alive /\ ~InIpcCall(t)) =>
            /\ ipcd[t].b_connected <=> ipcd[t].handle # INVALID_PIPE
            /\ ipcd[t].b_connected =>
                  ipcd[t].handle \in open /\ trk[t].hs = "ready"

\* C36: the pipe strategy and the socket strategy of Impl_Connect keep the
\* same contract: a connect that returns true leaves the handle open and the
\* connected flag true, a connect that returns false (every candidate failed)
\* leaves the handle equal to the sentinel and the connected flag false.
C36_SameContract ==
    [][\A t \in Threads :
         /\ (w[t].pc = "c_ok" /\ w'[t].pc # "c_ok") =>
               /\ ipcd'[w[t].self].handle \in open'
               /\ ipcd'[w[t].self].b_connected
         /\ (w[t].pc = "c_fail" /\ w'[t].pc # "c_fail") =>
               /\ ipcd'[w[t].self].handle = INVALID_PIPE
               /\ ~ipcd'[w[t].self].b_connected]_vars

\* The threads of the process: the caller and the workers that are running.
Executors == {Caller} \cup {Worker(t) : t \in Threads}
Exists(e) == e = Caller \/ Alive(e[2])

\* What executor e is blocked on, as the owner it waits for (Free: it is not
\* blocked): vlc_mutex_lock of the store mutex (lines 241, 313) or of the IPC
\* mutex (850, 905, 1016), vlc_join of the worker (385, 435).
WaitsFor(e) ==
    IF e = Caller
    THEN CASE cpc = "upd_lock" -> lock
           [] cpc \in {"join_dis", "join_close"} ->
                 (IF JoinDone(thread) THEN Free ELSE Worker(thread))
           [] OTHER -> Free
    ELSE CASE w[e[2]].pc = "upd_lock" -> lock
           [] w[e[2]].pc \in {"conn_lock", "setp_lock", "cl_lock"} ->
                 ipcd[w[e[2]].self].lock
           [] OTHER -> Free

\* The executors that can still take a step, directly or once those they
\* wait for have moved on (n rounds of propagation).
RECURSIVE CanProceed(_)
CanProceed(n) ==
    IF n = 0 THEN {e \in Executors : Exists(e) /\ WaitsFor(e) = Free}
    ELSE LET R == CanProceed(n - 1)
         IN  R \cup {e \in Executors : Exists(e) /\ WaitsFor(e) \in R}

Deadlocked == {e \in Executors : Exists(e)} \ CanProceed(MaxThreads + 1)

\* C38: no interleaving of the caller with the worker deadlocks: no thread
\* waits in a cycle or for a mutex nobody will release, a worker takes the
\* store mutex before the IPC mutex (it never waits for the store mutex while
\* owning an IPC mutex), and the caller owns no mutex while it joins.
C38_NoDeadlock ==
    ~crashed =>
        /\ Deadlocked = {}
        /\ \A t \in Threads :
              w[t].pc = "upd_lock" => \A a \in Threads : ipcd[a].lock # Worker(t)
        /\ cpc \in {"join_dis", "join_close"} =>
              lock # Caller /\ \A a \in Threads : ipcd[a].lock # Caller

\* The caller waits for the store mutex while the worker, inside a send, owns
\* it and the IPC mutex.
C38_Witness ==
    \E t \in Threads :
        /\ cpc = "upd_lock"
        /\ lock = Worker(t)
        /\ ipcd[t].lock = Worker(t)
        /\ w[t].pc \in ExchangePcs

\* The bytes of the peer's response that have arrived on the handle and that
\* SendDiscordMessageSync has returned without reading: the response is its
\* 8-byte header followed by the i_length bytes the header declares, of which
\* env.rb arrive in time and r.got are read.
Unread(i_length, env, r) ==
    (IF env.rb < i_length THEN env.rb ELSE i_length) - r.got

\* C39: after any SendDiscordMessageSync that has read a response header and
\* returned (success, timeout, oversize rejection, allocation failure), no
\* byte of that response is left unread on the handle, so the next header
\* read starts at a frame boundary.
C39_NoBytesLeftUnread ==
    (/\ calc.fn = "SendSync" /\ calc.done
     /\ ~MessageTooLarge(calc.arg.json_len)
     /\ calc.arg.env.wh /\ calc.arg.env.wb /\ calc.arg.env.rh) =>
        Unread(calc.arg.i_length, calc.arg.env, calc.res) = 0

\* C35: for every presence whose six text fields hold at most 127 characters
\* each (also when all of them need escaping) and every 64-bit start and end
\* time and process id, the set-activity body fits in the build buffer without
\* being cut, so it is sent whole, and its length is below the 16384-byte
\* maximum.
C35_BodyFits ==
    calc.fn = "SetActivityBody" /\ calc.done =>
        /\ calc.res.complete
        /\ calc.res.json_len = calc.res.total
        /\ calc.res.json_len < MAX_MESSAGE_SIZE

\* The longest body: every text field full of characters that need escaping,
\* both images named, 19-digit times and a 20-digit process id.
C35_Witness ==
    /\ calc.fn = "SetActivityBody" /\ calc.done
    /\ \A f \in {"sz_state", "sz_details", "sz_large_text", "sz_small_text"} :
          calc.arg.p[f] = Repeated(<<"quote">>, FIELD_SIZE - 1)
    /\ calc.arg.p.sz_large_image # <<>> /\ calc.arg.p.sz_small_image # <<>>
    /\ calc.arg.p.i_start_time > 0 /\ calc.arg.p.i_end_time > 0
    /\ calc.arg.end_digits = 19 /\ calc.arg.pid_digits = 20
    /\ calc.res.total > 6 * (FIELD_SIZE - 1)

\* The caller is inside the vlc_join of Impl_Close or Impl_SetEnabled.
Joining == cpc \in {"join_dis", "join_close"}

\* C31: under fair scheduling, once the run flag is cleared the worker thread
\* eventually exits, wherever it is, and the stop() or setEnabled(false) that
\* joins it eventually returns.
C31_StopTerminates ==
    /\ \A t \in Threads : (~b_run /\ Alive(t)) ~> ~Alive(t)
    /\ Joining ~> ~Joining

\* A stop requested while the worker was inside its send loop has returned.
C31_Witness ==
    /\ obs.stopAt = "connected"
    /\ cpc = "closed"
    /\ \A t \in Threads : ~Alive(t)

\* The session runs and the peer is there: the run flag is set, no worker
\* thread has ended, no connect attempt has just failed on every candidate,
\* and no allocation of a message buffer has just failed.
PeerAccepts ==
    /\ b_run
    /\ \A t \in Threads : w[t].pc \notin {"c_fail", "exited"} /\ w[t].res # "nomem"

\* C32: under fair scheduling, while the run flag stays set, a connect attempt
\* in which every candidate fails does not end the session (the worker goes
\* to the pause of the retry loop), and if from some point on a candidate
\* accepts the handshake the worker sends a presence, again and again: at
\* first start and after every peer-closed disconnection.
C32_RetryUntilConnected ==
    /\ [][\A t \in Threads :
            (w[t].pc = "c_fail" /\ w'[t].pc # "c_fail") => w'[t].pc = "sleep1"]_vars
    /\ <>[]PeerAccepts => []<>(io.op = "write" /\ io.msg = "set_activity")

\* A handshake has been accepted after an attempt in which every candidate
\* had failed.
C32_Witness ==
    \E t \in Threads : b_run /\ w[t].pc = "c_ok" /\ trk[t].fail >= 1

====
